---- MODULE Spec2Model ----
(***************************************************************************)
(* Verification model of crypto_trade.                                     *)
(*                                                                         *)
(* Part I  : BinanceFuturesWebSocketClient, one client instance driven by  *)
(*           cooperatively scheduled tasks (SpecWS, SpecWSFair).           *)
(*           SpecStreams adds its subscription list, the URL of each       *)
(*           connection attempt and the frames of each connection.         *)
(* Part II : CopyTradingStrategy, message handler, mirror operation and    *)
(*           per-source listeners (SpecCopy).                              *)
(*                                                                         *)
(* asyncio runs one task at a time and switches tasks only at an await     *)
(* that really suspends, so every action below is the code between two     *)
(* suspension points of one task.                                          *)
(***************************************************************************)
EXTENDS Integers, Sequences, FiniteSets, TLC

(***************************************************************************)
(* Bounds of the model.                                                    *)
(***************************************************************************)
\* reconnect iterations explored (the counter of the code is unbounded)
MaxReconnects == 9
\* sockets one run may open
MaxSockets == 2
\* largest max_reconnect_attempts a client is configured with
MaxAttemptsLimit == 2
\* frames whose handling is recorded in the history of a run
MaxFrames == 2
\* order requests one run of the REST interface sends
MaxOrders == 1
\* runs of the candle download, and symbols in the summary it reads
MaxRuns == 2
MaxSummary == 2
\* calls of update_lead_positions in one run
MaxUpdates == 3

(***************************************************************************)
(* Part I - BinanceFuturesWebSocketClient                                  *)
(***************************************************************************)

\* Tasks of the event loop that call the client's coroutines.
Tasks == {"t1", "t2"}

\* Arguments of subscribe_user_data: the empty key and a real one.
ListenKeys == {"", "lk1"}

\* self.reconnect_interval, self.max_reconnect_interval
reconnect_interval == 5
max_reconnect_interval == 300

VARIABLES
    running,                 \* self._running
    reconnect_count,         \* self._reconnect_count
    ws,                      \* self.ws: 0 is None, else the socket's id
    listen_key,              \* self._listen_key ("None" is None)
    user_data_stream,        \* self._user_data_stream
    max_reconnect_attempts,  \* self.max_reconnect_attempts: 0 is None
    openSocks,               \* ids of the sockets whose connection is open
    nSocks,                  \* sockets opened so far
    pc,                      \* per task: the await it is suspended at
    sock,                    \* per task: the socket its message loop iterates
    backoff,                 \* per task: seconds of the asyncio.sleep it is in
    unclosed,                \* history: an attempt of the task ended and
                             \*   on_close has not been called since
    stopRequested,           \* history: stop() was called, no start() since
    consecAttempts           \* history: reconnect attempts (each begins with
                             \*   its wait) since the last successful connect

wsVars == <<running, reconnect_count, ws, listen_key, user_data_stream,
            max_reconnect_attempts, openSocks, nSocks, pc, sock, backoff,
            unclosed, stopRequested, consecAttempts>>

\* Subscription list, connection URLs and frame history of the client.
VARIABLES
    subscribed_streams,  \* self._subscribed_streams, a list
    url,                 \* per task: the url of its last websockets.connect
    received,            \* history, per socket: frames the message loop took
    dispatched,          \* history, per socket: arguments of on_message
    errors               \* history, per socket: frames whose handling called
                         \*   on_error

subVars == <<subscribed_streams, url, received, dispatched, errors>>

\* State of the copy-trading strategy (Part II).
VARIABLES
    source_configs,     \* self.source_configs: enabled source -> its yaml entry
    executed_orders,    \* self.executed_orders: source -> list of executions
    symbol_info_cache,  \* main_interface._symbol_info_cache: symbols cached
    copyTasks,          \* tasks made by asyncio.create_task(_copy_trade(..)),
                        \*   not yet run, in creation order
    mainOrders,         \* create_market_order calls on the main interface
    copyLog,            \* the "[COPY] source -> MAIN" line of each mirror
    listener,           \* per source: where _listen_source_account is
    runState,           \* run(): "new", "gathering" or "returned"
    handled             \* history: frames dispatched to the handlers

ctVars == <<source_configs, executed_orders, symbol_info_cache, copyTasks,
            mainOrders, copyLog, listener, runState, handled>>

\* The strategy's own state, without the cache of its interface.
strategyVars == <<source_configs, executed_orders, copyTasks, mainOrders,
                  copyLog, listener, runState, handled>>

\* State of one BinanceFuturesInterface (Part III); its _symbol_info_cache
\* is symbol_info_cache above.
VARIABLES
    symbols_info,   \* self._symbols_info: symbol -> metadata
    orders,         \* exchange: the futures_create_order requests received
    last            \* history: the last call, its arguments and its result

restVars == <<symbols_info, orders, last>>

\* State of one candle download (Part IV): the files it reads and writes and
\* the locals of main().
VARIABLES
    info_symbols,       \* liquidation_info.json: info['symbols']
    progress_file,      \* download_progress.json: <<>> or <<its content>>
    csv_files,          \* candles/: the symbols whose file is written
    csv_partial,        \* candles/: the symbols whose file is cut short
    dl_pc,              \* main(): "idle", "download", "write", "rows",
                        \* "save" or "done"
    completed,          \* the list completed of main()
    failed,             \* the list failed of main()
    remaining_symbols,  \* the list remaining_symbols of main()
    dl_i,               \* the position of the loop in remaining_symbols
    runs,               \* history: runs of main() started
    downloads,          \* history: <<run, symbol>> of each download made
    processed,          \* history: symbols this run has processed
    saves,              \* history: save_progress calls of this run
    completed_in        \* history: symbol -> run that recorded it completed

dlVars == <<info_symbols, progress_file, csv_files, csv_partial, dl_pc,
            completed, failed,
            remaining_symbols, dl_i, runs, downloads, processed, saves,
            completed_in>>

\* State of one Database (Part V).
VARIABLES
    lead_positions,     \* table lead_positions: its rows in id order
    next_id,            \* the next AUTOINCREMENT id of the table
    db_last             \* history: the last call and what it returned

dbVars == <<lead_positions, next_id, db_last>>

\* State of the analysis application (Part VI): the tables its trade
\* summary reads beside lead_positions, and the last summary.
VARIABLES
    lead_traders,       \* table lead_traders of the user, in nickname order
    user_positions,     \* table user_positions of the user, in symbol order
    summary             \* history: <<>> or <<the rows of the last summary>>

sumVars == <<lead_traders, user_positions, summary>>

\* State of the liquidation analysis (Part IX): the frame the filters of
\* Stage 3 are given, and the last call.
VARIABLES
    df,                 \* the DataFrame: its rows in order
    filter_last         \* history: the last filter call and what it returned

anVars == <<df, filter_last>>

\* State of the log file handler (Part X) and of its directory.
VARIABLES
    log_files,          \* the files of log_dir: their names
    baseFilename,       \* self.baseFilename: <<>> or <<the name>>
    stream,             \* self.stream: "None" or "open"
    today,              \* the day datetime.now() falls in, as a day number
    backupCount,        \* self.backupCount
    log_last            \* history: the last step and the files before it

logVars == <<log_files, baseFilename, stream, today, backupCount, log_last>>

\* State of one call of get_historical_klines (Part XI).
VARIABLES
    kl_pc,              \* "idle", "while", "convert" or "done"
    kl_args,            \* interval, start_time and end_time of the call
    current_start,      \* current_start
    all_klines,         \* all_klines
    pages,              \* history: the pages the exchange returned, in order
    kl_result           \* <<>> or <<the list returned>>

klVars == <<kl_pc, kl_args, current_start, all_klines, pages, kl_result>>

\* State of the utilities and of Stage 3.
otherVars == <<anVars, logVars, klVars>>

\* State of the example tools.
toolVars == <<dlVars, dbVars, sumVars, otherVars>>

Min(a, b) == IF a < b THEN a ELSE b

frameVars == <<received, dispatched, errors>>

\* Stream names a caller subscribes to, and the lists passed to subscribe()
\* and unsubscribe().
StreamNames == {"btcusdt@aggTrade", "btcusdt@markPrice"}
StreamLists ==
    { <<"btcusdt@aggTrade">>, <<"btcusdt@markPrice">>,
      <<"btcusdt@aggTrade", "btcusdt@aggTrade">>,
      <<"btcusdt@markPrice", "btcusdt@aggTrade">> }

\* set(list) and `x in list`
ToSet(list) == {list[i] : i \in 1..Len(list)}

\* list(set): the elements of the set, once each, in some order.
ListsOf(set) ==
    {l \in UNION {[1..n -> set] : n \in 0..Cardinality(set)} :
        Len(l) = Cardinality(set) /\ ToSet(l) = set}

\* list.remove(x): the list without the first x.
RECURSIVE Remove(_, _)
Remove(list, x) ==
    IF list = <<>> THEN <<>>
    ELSE IF Head(list) = x THEN Tail(list)
    ELSE <<Head(list)>> \o Remove(Tail(list), x)

\* unsubscribe, lines 124-126: one remove for each listed stream present.
RECURSIVE RemoveAll(_, _)
RemoveAll(list, streams) ==
    IF streams = <<>> THEN list
    ELSE RemoveAll(IF Head(streams) \in ToSet(list)
                   THEN Remove(list, Head(streams)) ELSE list,
                   Tail(streams))

\* "/".join(list): the names with a "/" between neighbours.
RECURSIVE Join(_)
Join(list) ==
    IF list = <<>> THEN <<>>
    ELSE IF Len(list) = 1 THEN list
    ELSE <<Head(list), "/">> \o Join(Tail(list))

\* The url with the subscription list tested before the listen key.
ConnectUrlStreamsFirst ==
    IF subscribed_streams # <<>>
    THEN <<"/stream?streams=">> \o Join(subscribed_streams)
    ELSE IF user_data_stream /\ listen_key \notin {"None", ""}
    THEN <<"/ws/", listen_key>>
    ELSE <<"/ws">>

\* _connect, lines 221-229: the url, as the pieces of the f-string after
\* self.ws_url.
ConnectUrl ==
    IF user_data_stream /\ listen_key \notin {"None", ""}
    THEN <<"/ws/", listen_key>>
    ELSE IF subscribed_streams # <<>>
    THEN <<"/stream?streams=">> \o Join(subscribed_streams)
    ELSE <<"/ws">>

\* _connect, lines 248-252: the params of the SUBSCRIBE frame sent once the
\* connection is open (<<>>: no frame), for the url it was opened with.
\* Only the url "/ws" ends with '/ws': a listen key is its last piece
\* otherwise, or a stream name.
SubscribeOnConnect(u, streams) ==
    IF streams = <<>> THEN <<>>
    ELSE IF u[Len(u)] = "/ws" THEN streams
    ELSE <<>>

\* _connect is entered by task t: the url is built and websockets.connect
\* called with it.
BeginConnect(t) == url' = [url EXCEPT ![t] = ConnectUrl]

\* The task is inside start(): in its connect / message-loop / reconnect cycle.
LoopPcs == {"connecting", "messages", "sleeping", "rconnecting", "rmessages"}
InLoop(t) == pc[t] \in LoopPcs

\* is_connected: a socket handle exists and its connection reports open.
is_connected == ws # 0 /\ ws \in openSocks

\* The backoff with the exponent off by one.
BackoffDoubled(count) ==
    Min(reconnect_interval * (2 ^ count), max_reconnect_interval)

\* _reconnect, lines 276-280: the backoff before reconnect attempt `count`.
Backoff(count) ==
    Min(reconnect_interval * (2 ^ (count - 1)), max_reconnect_interval)

\* start() returns to its caller (the while of line 301 ends).
ReturnFromStart(t) ==
    /\ pc' = [pc EXCEPT ![t] = "idle"]
    /\ sock' = [sock EXCEPT ![t] = 0]
    /\ backoff' = [backoff EXCEPT ![t] = 0]

\* _reconnect from the head of its while loop (line 267) up to the sleep of
\* line 283, or out of the loop and out of start().
ReconnectLoop(t) ==
    IF running
    THEN LET count == reconnect_count + 1 IN
         /\ reconnect_count < MaxReconnects
         /\ reconnect_count' = count
         /\ IF max_reconnect_attempts # 0 /\ count > max_reconnect_attempts
            THEN /\ running' = FALSE
                 /\ ReturnFromStart(t)
                 /\ UNCHANGED consecAttempts
            ELSE /\ pc' = [pc EXCEPT ![t] = "sleeping"]
                 /\ backoff' = [backoff EXCEPT ![t] = Backoff(count)]
                 /\ sock' = [sock EXCEPT ![t] = 0]
                 /\ consecAttempts' = consecAttempts + 1
                 /\ UNCHANGED running
    ELSE /\ ReturnFromStart(t)
         /\ UNCHANGED <<running, reconnect_count, consecAttempts>>

\* The body of start() after a successful `if self._running` test of line 294:
\* the flag is set and the first _connect() is awaited.
EnterStart(t) ==
    /\ running' = TRUE
    /\ stopRequested' = FALSE
    /\ pc' = [pc EXCEPT ![t] = "connecting"]
    /\ BeginConnect(t)

\* start(): a no-op when already running.
Start(t) ==
    /\ pc[t] = "idle"
    /\ IF running
       THEN UNCHANGED <<wsVars, url>>
       ELSE /\ EnterStart(t)
            /\ UNCHANGED <<reconnect_count, ws, listen_key, user_data_stream,
                           max_reconnect_attempts, openSocks, nSocks, sock,
                           backoff, unclosed, consecAttempts>>
    /\ UNCHANGED <<subscribed_streams, frameVars, ctVars, restVars, toolVars>>

\* stop(): clears the flag and closes self.ws; the caller is suspended in
\* ws.close() only while that socket is still open.
Stop(t) ==
    /\ pc[t] = "idle"
    /\ running' = FALSE
    /\ stopRequested' = TRUE
    /\ IF is_connected
       THEN /\ openSocks' = openSocks \ {ws}
            /\ pc' = [pc EXCEPT ![t] = "closing"]
       ELSE UNCHANGED <<openSocks, pc>>
    /\ UNCHANGED <<reconnect_count, ws, listen_key, user_data_stream,
                   max_reconnect_attempts, nSocks, sock, backoff, unclosed,
                   consecAttempts>>
    /\ UNCHANGED <<subVars, ctVars, restVars, toolVars>>

\* ws.close() completes and stop() returns.
StopReturn(t) ==
    /\ pc[t] = "closing"
    /\ pc' = [pc EXCEPT ![t] = "idle"]
    /\ UNCHANGED <<running, reconnect_count, ws, listen_key, user_data_stream,
                   max_reconnect_attempts, openSocks, nSocks, sock, backoff,
                   unclosed, stopRequested, consecAttempts>>
    /\ UNCHANGED <<subVars, ctVars, restVars, toolVars>>

\* subscribe_user_data(listen_key): raises on an empty key; records the key;
\* on a connected client calls stop() and then start().
SubscribeUserData(t, key) ==
    /\ pc[t] = "idle"
    /\ IF key = ""
       THEN UNCHANGED wsVars
       ELSE /\ listen_key' = key
            /\ user_data_stream' = TRUE
            /\ IF is_connected
               THEN /\ running' = FALSE
                    /\ stopRequested' = TRUE
                    /\ openSocks' = openSocks \ {ws}
                    /\ pc' = [pc EXCEPT ![t] = "sud_closing"]
               ELSE UNCHANGED <<running, stopRequested, openSocks, pc>>
            /\ UNCHANGED <<reconnect_count, ws, max_reconnect_attempts, nSocks,
                           sock, backoff, unclosed, consecAttempts>>
    /\ UNCHANGED <<subVars, ctVars, restVars, toolVars>>

\* subscribe_user_data after its stop() returned: start() (lines 358-359).
SudRestart(t) ==
    /\ pc[t] = "sud_closing"
    /\ IF running
       THEN /\ pc' = [pc EXCEPT ![t] = "idle"]
            /\ UNCHANGED <<running, stopRequested, url>>
       ELSE EnterStart(t)
    /\ UNCHANGED <<reconnect_count, ws, listen_key, user_data_stream,
                   max_reconnect_attempts, openSocks, nSocks, sock, backoff,
                   unclosed, consecAttempts>>
    /\ UNCHANGED <<subscribed_streams, frameVars, ctVars, restVars, toolVars>>

\* websockets.connect succeeds (lines 234-255): the socket is stored, the
\* counter reset, on_open called and the message loop entered.
ConnectOk(t) ==
    /\ pc[t] \in {"connecting", "rconnecting"}
    /\ nSocks < MaxSockets
    /\ LET id == nSocks + 1 IN
       /\ nSocks' = id
       /\ ws' = id
       /\ openSocks' = openSocks \cup {id}
       /\ sock' = [sock EXCEPT ![t] = id]
    /\ reconnect_count' = 0
    /\ consecAttempts' = 0
    /\ pc' = [pc EXCEPT ![t] = IF pc[t] = "connecting" THEN "messages"
                                                       ELSE "rmessages"]
    /\ UNCHANGED <<running, listen_key, user_data_stream,
                   max_reconnect_attempts, backoff, unclosed, stopRequested>>
    /\ UNCHANGED <<subVars, ctVars, restVars, toolVars>>

\* websockets.connect raises: _connect calls on_error and re-raises.
\* In start() (lines 302-317) the exception is logged, on_close is called and
\* _reconnect entered if still running; in _reconnect (lines 285-290) the
\* loop continues.
ConnectFail(t) ==
    /\ pc[t] \in {"connecting", "rconnecting"}
    /\ IF pc[t] = "connecting"
       THEN unclosed' = [unclosed EXCEPT ![t] = FALSE]
       ELSE unclosed' = [unclosed EXCEPT ![t] = TRUE]
    /\ ReconnectLoop(t)
    /\ UNCHANGED <<ws, listen_key, user_data_stream, max_reconnect_attempts,
                   openSocks, nSocks, stopRequested>>
    /\ UNCHANGED <<subVars, ctVars, restVars, toolVars>>

\* _handle_messages returns and with it _connect.  Called from start()
\* (line 303): on_close, then _reconnect if still running.  Called from
\* _reconnect (line 286): break, back in start()'s while, which awaits
\* _connect() again if still running.
SessionEnd(t) ==
    /\ IF pc[t] = "messages"
       THEN /\ unclosed' = [unclosed EXCEPT ![t] = FALSE]
            /\ ReconnectLoop(t)
            /\ UNCHANGED url
       ELSE /\ unclosed' = [unclosed EXCEPT ![t] = TRUE]
            /\ IF running
               THEN /\ pc' = [pc EXCEPT ![t] = "connecting"]
                    /\ sock' = [sock EXCEPT ![t] = 0]
                    /\ BeginConnect(t)
                    /\ UNCHANGED backoff
               ELSE /\ ReturnFromStart(t)
                    /\ UNCHANGED url
            /\ UNCHANGED <<running, reconnect_count, consecAttempts>>
    /\ UNCHANGED <<ws, listen_key, user_data_stream, max_reconnect_attempts,
                   openSocks, nSocks, stopRequested>>

\* Frames of a connection: text that is not JSON, the acknowledgment of a
\* subscription, an event, and an event on which on_message raises.
Frames ==
    { [json |-> FALSE, data |-> [raw |-> "garbage"]],
      [json |-> TRUE, data |-> [result |-> "null", id |-> "1"]],
      [json |-> TRUE, data |-> [e |-> "aggTrade"]],
      [json |-> TRUE, data |-> [e |-> "boom"]] }

\* on_message raises on this argument.
CallbackRaises(data) == data = [e |-> "boom"]

\* Line 191: a mapping with a `result` that is None.
IsAck(data) == "result" \in DOMAIN data /\ data.result = "null"

\* Lines 183-207 for one frame: what on_message and on_error are called with.
Dispatched(frame) ==
    IF frame.json /\ ~IsAck(frame.data) THEN <<frame.data>> ELSE <<>>

Errors(frame) ==
    IF frame.json /\ ~IsAck(frame.data) /\ CallbackRaises(frame.data)
    THEN <<frame>> ELSE <<>>

\* A frame arrives in the message loop (lines 179-207): the loop breaks if
\* the flag is down, else the frame is handled and the loop waits again.
\* The history is written while `observed`.
RecvFrame(t, frame, observed) ==
    /\ pc[t] \in {"messages", "rmessages"}
    /\ sock[t] \in openSocks
    /\ IF running
       THEN /\ UNCHANGED <<wsVars, url>>
            /\ IF observed
               THEN /\ dispatched' =
                          [dispatched EXCEPT ![sock[t]] = @ \o Dispatched(frame)]
                    /\ errors' = [errors EXCEPT ![sock[t]] = @ \o Errors(frame)]
               ELSE UNCHANGED <<dispatched, errors>>
       ELSE /\ SessionEnd(t)
            /\ UNCHANGED <<dispatched, errors>>
    /\ IF observed
       THEN received' = [received EXCEPT ![sock[t]] = Append(@, frame)]
       ELSE UNCHANGED received
    /\ UNCHANGED <<subscribed_streams, ctVars, restVars, toolVars>>

\* The message loop finds its socket closed: the iteration ends.
ObserveClosed(t) ==
    /\ pc[t] \in {"messages", "rmessages"}
    /\ sock[t] \notin openSocks
    /\ SessionEnd(t)
    /\ UNCHANGED <<subscribed_streams, frameVars, ctVars, restVars, toolVars>>

\* asyncio.sleep(backoff) ends (line 283): _connect is awaited (line 286).
SleepDone(t) ==
    /\ pc[t] = "sleeping"
    /\ pc' = [pc EXCEPT ![t] = "rconnecting"]
    /\ backoff' = [backoff EXCEPT ![t] = 0]
    /\ BeginConnect(t)
    /\ UNCHANGED <<running, reconnect_count, ws, listen_key, user_data_stream,
                   max_reconnect_attempts, openSocks, nSocks, sock, unclosed,
                   stopRequested, consecAttempts>>
    /\ UNCHANGED <<subscribed_streams, frameVars, ctVars, restVars, toolVars>>

\* The exchange or the network closes a connection.
PeerClose ==
    /\ \E id \in openSocks : openSocks' = openSocks \ {id}
    /\ UNCHANGED <<running, reconnect_count, ws, listen_key, user_data_stream,
                   max_reconnect_attempts, nSocks, pc, sock, backoff, unclosed,
                   stopRequested, consecAttempts>>
    /\ UNCHANGED <<subVars, ctVars, restVars, toolVars>>

\* __init__ (lines 31-42); max_reconnect_attempts is an attribute the owner
\* may set before starting the client.
InitWS ==
    /\ running = FALSE
    /\ reconnect_count = 0
    /\ ws = 0
    /\ listen_key = "None"
    /\ user_data_stream = FALSE
    /\ max_reconnect_attempts \in 0..MaxAttemptsLimit
    /\ openSocks = {}
    /\ nSocks = 0
    /\ pc = [t \in Tasks |-> "idle"]
    /\ sock = [t \in Tasks |-> 0]
    /\ backoff = [t \in Tasks |-> 0]
    /\ unclosed = [t \in Tasks |-> FALSE]
    /\ stopRequested = FALSE
    /\ consecAttempts = 0
    /\ subscribed_streams = <<>>
    /\ url = [t \in Tasks |-> <<>>]
    /\ received = [id \in 1..MaxSockets |-> <<>>]
    /\ dispatched = [id \in 1..MaxSockets |-> <<>>]
    /\ errors = [id \in 1..MaxSockets |-> <<>>]

NextWS ==
    \/ \E t \in Tasks : Start(t)
    \/ \E t \in Tasks : Stop(t)
    \/ \E t \in Tasks : StopReturn(t)
    \/ \E t \in Tasks, key \in ListenKeys : SubscribeUserData(t, key)
    \/ \E t \in Tasks : SudRestart(t)
    \/ \E t \in Tasks : ConnectOk(t)
    \/ \E t \in Tasks : ConnectFail(t)
    \/ \E t \in Tasks, frame \in Frames : RecvFrame(t, frame, FALSE)
    \/ \E t \in Tasks : ObserveClosed(t)
    \/ \E t \in Tasks : SleepDone(t)
    \/ PeerClose

\* subscribe without line 119.
SubscribeExtendOnly(streams) ==
    /\ subscribed_streams' = subscribed_streams \o streams
    /\ UNCHANGED <<wsVars, url, frameVars, ctVars, restVars, toolVars>>

\* subscribe(streams), lines 118-119: extend, then list(set(..)).
Subscribe(streams) ==
    /\ subscribed_streams' \in ListsOf(ToSet(subscribed_streams \o streams))
    /\ UNCHANGED <<wsVars, url, frameVars, ctVars, restVars, toolVars>>

\* unsubscribe(streams), lines 124-126.
Unsubscribe(streams) ==
    /\ subscribed_streams' = RemoveAll(subscribed_streams, streams)
    /\ UNCHANGED <<wsVars, url, frameVars, ctVars, restVars, toolVars>>

\* Frames observed so far.
RECURSIVE FramesUpTo(_)
FramesUpTo(id) ==
    IF id = 0 THEN 0 ELSE Len(received[id]) + FramesUpTo(id - 1)

FramesSeen == FramesUpTo(MaxSockets)

\* The operations of a client whose task t1 runs start() while task t2 calls
\* stop() and subscribe_user_data().
NextDriven ==
    \/ Start("t1")
    \/ Stop("t2")
    \/ StopReturn("t2")
    \/ \E key \in ListenKeys : SubscribeUserData("t2", key)
    \/ SudRestart("t2")
    \/ \E t \in Tasks : ConnectOk(t)
    \/ \E t \in Tasks : ConnectFail(t)
    \/ \E t \in Tasks : ObserveClosed(t)
    \/ \E t \in Tasks : SleepDone(t)
    \/ PeerClose

\* That client with its subscription operations.
NextStreams ==
    \/ NextDriven
    \/ \E t \in Tasks, frame \in Frames : RecvFrame(t, frame, FALSE)
    \/ \E streams \in StreamLists : Subscribe(streams)
    \/ \E streams \in StreamLists : Unsubscribe(streams)

\* That client with the frames of its connections observed.
NextFrames ==
    \/ NextDriven
    \/ \E t \in Tasks, frame \in Frames :
          FramesSeen < MaxFrames /\ RecvFrame(t, frame, TRUE)

(***************************************************************************)
(* Part II - CopyTradingStrategy                                           *)
(*                                                                         *)
(* Quantities of user-data events are integers in units of 0.0001;         *)
(* coefficients are in tenths; a calculated or rounded quantity is in      *)
(* units of 0.00001, so that quantity x coefficient is exact.  The fields  *)
(* of an event that the handler only copies into the record (E, ap, i, c)  *)
(* are left out.                                                           *)
(***************************************************************************)

\* user-data events one run dispatches to the handlers
MaxMessages == 2

\* source_accounts of config.yaml: s3 is disabled.  Two configurations:
\* a scaled source beside a reversed one, and a scaled and reversed source
\* beside one with every key at its default.
YamlChoices ==
    { { [name |-> "s1", coefficient |-> 5],
        [name |-> "s2", reverse_trades |-> TRUE],
        [name |-> "s3", enabled |-> FALSE] },
      { [name |-> "s1", coefficient |-> 5, reverse_trades |-> TRUE],
        [name |-> "s2", enabled |-> TRUE, reverse_trades |-> FALSE],
        [name |-> "s3", enabled |-> FALSE] } }

YamlNames == {"s1", "s2", "s3"}

\* dict.get(key, default)
Get(d, key, default) == IF key \in DOMAIN d THEN d[key] ELSE default

Symbols == {"ETHUSDT", "BTCUSD"}
Sides == {"BUY", "SELL"}
Statuses == {"FILLED", "PARTIALLY_FILLED", "NEW", "CANCELED", "EXPIRED"}

\* Orders the source accounts trade, as <<symbol, side, cumulative filled
\* quantity>>: 2.0 on both sides and both symbols, 0.0004, and nothing filled.
OrderSamples ==
    { <<"ETHUSDT", "BUY", 20000>>, <<"ETHUSDT", "SELL", 20000>>,
      <<"BTCUSD", "SELL", 20000>>, <<"ETHUSDT", "BUY", 4>>,
      <<"ETHUSDT", "BUY", 0>> }

\* Frames of a user-data stream: an update of each order in every status,
\* another event, and a frame without an event type.  The fields s, S, z, X
\* of message['o'] are kept beside e in one record.
Messages ==
    { [e |-> "ORDER_TRADE_UPDATE", s |-> o[1], S |-> o[2], z |-> o[3],
       X |-> status] : o \in OrderSamples, status \in Statuses }
        \cup {[e |-> "ACCOUNT_UPDATE"], [id |-> 1]}

\* futures_exchange_info of the main account: the symbols listed and the
\* stepSize of their LOT_SIZE filter, in units of 0.00001 (0.001 for ETHUSDT
\* and BTCUSDT, 0.1 for XRPUSDT).
ExchangeLotStep ==
    [sym \in {"ETHUSDT", "BTCUSDT", "XRPUSDT"} |->
        IF sym = "XRPUSDT" THEN 10000 ELSE 100]

\* 'USDT' in symbol
ContainsUSDT(symbol) == symbol \in {"ETHUSDT", "BTCUSDT", "XRPUSDT"}

Sources == DOMAIN source_configs

\* __init__, lines 28-41: the sources that are not disabled.
EnabledSources(yaml) ==
    {src \in yaml : Get(src, "enabled", TRUE)}

\* The guard of line 61 taking a partial fill for a fill.
ShouldCopyPartial(order_status, executed_qty) ==
    order_status \in {"FILLED", "PARTIALLY_FILLED"} /\ executed_qty > 0

\* The guard of line 61.
ShouldCopy(order_status, executed_qty) ==
    order_status = "FILLED" /\ executed_qty > 0

\* The execution record of lines 65-73.
Execution(m) == [symbol |-> m.s, side |-> m.S, quantity |-> m.z]

\* on_message of _create_message_handler(source_name), lines 46-82.
OnMessage(source_name, m) ==
    /\ runState = "gathering"
    /\ listener[source_name] \in {"messages", "rmessages"}
    /\ handled < MaxMessages
    /\ handled' = handled + 1
    /\ IF "e" \in DOMAIN m /\ m.e = "ORDER_TRADE_UPDATE"
          /\ ShouldCopy(m.X, m.z)
       THEN /\ executed_orders' =
                  [executed_orders EXCEPT
                      ![source_name] = Append(@, Execution(m))]
            /\ copyTasks' =
                  Append(copyTasks, [source_name |-> source_name,
                                     execution |-> Execution(m)])
       ELSE UNCHANGED <<executed_orders, copyTasks>>
    /\ UNCHANGED <<source_configs, symbol_info_cache, mainOrders, copyLog,
                   listener, runState>>
    /\ UNCHANGED <<wsVars, subVars, restVars, toolVars>>

\* Line 96: original_qty * coefficient.
CalculatedQty(original_qty, coefficient) == original_qty * coefficient

\* Lines 102-103 without the flip.
MirrorSideKept(side, reverse_trades) == side

\* Lines 102-103.
MirrorSide(side, reverse_trades) ==
    IF reverse_trades THEN (IF side = "BUY" THEN "SELL" ELSE "BUY") ELSE side

\* The multiple of step below: what rounding toward zero would give.
RoundFloor(quantity, step) == (quantity \div step) * step

\* (quantity / step).quantize(0, ROUND_HALF_UP) * step, for quantity >= 0.
\* Decimal(str(x)) reads the shortest decimal that prints x and float(...)
\* gives the double that prints as the product, so the helpers work on the
\* decimal values, here whole numbers of the smallest unit.
RoundHalfUp(quantity, step) == ((2 * quantity + step) \div (2 * step)) * step

\* round_quantity_to_lot: with symbol info the LOT_SIZE step decides; without
\* it a symbol containing USDT is rounded to 0.001 and any other is returned
\* as it came.
round_quantity_to_lot(symbol, quantity, have_info) ==
    IF have_info THEN RoundHalfUp(quantity, ExchangeLotStep[symbol])
    ELSE IF ContainsUSDT(symbol) THEN RoundHalfUp(quantity, 100)
    ELSE quantity

\* A loop that runs the task scheduled last.
LastTask(tasks) == tasks[Len(tasks)]

\* The event loop runs the scheduled tasks in the order of their
\* create_task calls (line 75).
NextTask(tasks) == Head(tasks)

\* _copy_trade(source_name, execution), lines 86-116, run by the event loop
\* as the oldest task not yet run; it has no suspension point.  rest_ok:
\* the exchange-info request of _get_symbol_info succeeds; order_ok: the
\* exchange accepts the order.
CopyTrade(rest_ok, order_ok) ==
    /\ runState = "gathering"
    /\ copyTasks # <<>>
    /\ LET task == NextTask(copyTasks)
           source_config == source_configs[task.source_name]
           symbol == task.execution.symbol
           original_qty == task.execution.quantity
           coefficient == Get(source_config, "coefficient", 10)
           calculated_qty == CalculatedQty(original_qty, coefficient)
           cached == IF symbol \in symbol_info_cache \/ ~rest_ok
                     THEN symbol_info_cache
                     ELSE symbol_info_cache
                              \cup ({symbol} \cap DOMAIN ExchangeLotStep)
           rounded_qty == round_quantity_to_lot(symbol, calculated_qty,
                                                symbol \in cached)
           side == MirrorSide(task.execution.side,
                              Get(source_config, "reverse_trades", FALSE))
       IN  /\ symbol_info_cache' = cached
           /\ copyLog' = Append(copyLog,
                  [source_name |-> task.source_name, symbol |-> symbol,
                   side |-> side, original_qty |-> original_qty,
                   coefficient |-> coefficient,
                   calculated_qty |-> calculated_qty,
                   rounded_qty |-> rounded_qty])
           /\ mainOrders' = Append(mainOrders,
                  [symbol |-> symbol, side |-> side, quantity |-> rounded_qty,
                   result |-> IF order_ok THEN "order" ELSE "None"])
    /\ copyTasks' = Tail(copyTasks)
    /\ UNCHANGED <<source_configs, executed_orders, listener, runState,
                   handled>>
    /\ UNCHANGED <<wsVars, subVars, restVars, toolVars>>

\* run(), lines 122-125: one listener task per source.
RunStart ==
    /\ runState = "new"
    /\ runState' = "gathering"
    /\ listener' = [src \in Sources |-> "init"]
    /\ UNCHANGED <<source_configs, executed_orders, symbol_info_cache,
                   copyTasks, mainOrders, copyLog, handled>>
    /\ UNCHANGED <<wsVars, subVars, restVars, toolVars>>

\* A gather that completes with its first finished task.
GatherFirstDone == \E src \in Sources : listener[src] = "exited"

\* asyncio.gather(*tasks) of line 127 completes.
GatherDone == \A src \in Sources : listener[src] = "exited"

\* run() returns.
RunReturn ==
    /\ runState = "gathering"
    /\ GatherDone
    /\ runState' = "returned"
    /\ UNCHANGED <<source_configs, executed_orders, symbol_info_cache,
                   copyTasks, mainOrders, copyLog, listener, handled>>
    /\ UNCHANGED <<wsVars, subVars, restVars, toolVars>>

\* A listener task moves on; asyncio.run runs the tasks while run() waits in
\* gather and cancels what is left once run() has returned.
ListenerStep(name, to) ==
    /\ runState = "gathering"
    /\ listener' = [listener EXCEPT ![name] = to]
    /\ UNCHANGED <<source_configs, executed_orders, symbol_info_cache,
                   copyTasks, mainOrders, copyLog, runState, handled>>
    /\ UNCHANGED <<wsVars, subVars, restVars, toolVars>>

\* _listen_source_account, lines 137-152: without a listen key the listener
\* returns; with one the client is put in user-data mode and started.
GetListenKey(name, key_ok) ==
    /\ listener[name] = "init"
    /\ ListenerStep(name, IF key_ok THEN "connecting" ELSE "exited")

\* The source's client inside start(), which never returns here: stop() is
\* not called and max_reconnect_attempts is None.  The phases are those of
\* Part I; the reconnect counter only sets the length of the wait.
ListenerConnectOk(name) ==
    /\ listener[name] \in {"connecting", "rconnecting"}
    /\ ListenerStep(name, IF listener[name] = "connecting" THEN "messages"
                                                            ELSE "rmessages")

ListenerConnectFail(name) ==
    /\ listener[name] \in {"connecting", "rconnecting"}
    /\ ListenerStep(name, "sleeping")

ListenerDisconnect(name) ==
    /\ listener[name] \in {"messages", "rmessages"}
    /\ ListenerStep(name, IF listener[name] = "messages" THEN "sleeping"
                                                          ELSE "connecting")

ListenerSleepDone(name) ==
    /\ listener[name] = "sleeping"
    /\ ListenerStep(name, "rconnecting")

\* CopyTradingStrategy.__init__, lines 24-41.
InitCopy(yaml) ==
    /\ source_configs =
          [name \in {src.name : src \in EnabledSources(yaml)} |->
              CHOOSE src \in yaml : src.name = name]
    /\ executed_orders = [name \in DOMAIN source_configs |-> <<>>]
    /\ symbol_info_cache = {}
    /\ copyTasks = <<>>
    /\ mainOrders = <<>>
    /\ copyLog = <<>>
    /\ listener = [name \in DOMAIN source_configs |-> "none"]
    /\ runState = "new"
    /\ handled = 0

NextCopy ==
    \/ RunStart
    \/ RunReturn
    \/ \E name \in Sources, key_ok \in BOOLEAN : GetListenKey(name, key_ok)
    \/ \E name \in Sources : ListenerConnectOk(name)
    \/ \E name \in Sources : ListenerConnectFail(name)
    \/ \E name \in Sources : ListenerDisconnect(name)
    \/ \E name \in Sources : ListenerSleepDone(name)
    \/ \E name \in Sources, m \in Messages : OnMessage(name, m)
    \/ \E rest_ok \in BOOLEAN, order_ok \in BOOLEAN : CopyTrade(rest_ok, order_ok)

(***************************************************************************)
(* Part III - BinanceFuturesInterface                                      *)
(*                                                                         *)
(* Prices are whole dollars, USDT amounts are in cents, quantities, steps  *)
(* and minimum quantities in units of 0.001.  The Python floats that decide*)
(* the result of calculate_quantity_from_usdt are IEEE-754 doubles and are *)
(* computed exactly: a double is a record [m, e] standing for m * 2^-e     *)
(* with 2^52 <= m < 2^53, and m is a natural number kept as its digits in  *)
(* base 2^15, least significant first.                                     *)
(***************************************************************************)

\* Natural numbers of any size: digits in base 2^15, lowest first, no
\* leading zero digit; <<>> is 0.
BigBase == 2 ^ 15

RECURSIVE BigOf(_)
BigOf(n) == IF n = 0 THEN <<>> ELSE <<n % BigBase>> \o BigOf(n \div BigBase)

\* x * k + carry for a small k
RECURSIVE BigMulSmall(_, _, _)
BigMulSmall(x, k, carry) ==
    IF x = <<>>
    THEN BigOf(carry)
    ELSE LET v == Head(x) * k + carry IN
         <<v % BigBase>> \o BigMulSmall(Tail(x), k, v \div BigBase)

\* x * 2^n
RECURSIVE BigShift(_, _)
BigShift(x, n) ==
    IF n = 0 \/ x = <<>> THEN x
    ELSE IF n >= 15 THEN BigShift(<<0>> \o x, n - 15)
    ELSE BigShift(BigMulSmall(x, 2, 0), n - 1)

\* x without leading zero digits
RECURSIVE BigTrim(_)
BigTrim(x) ==
    IF x = <<>> THEN x
    ELSE IF x[Len(x)] = 0 THEN BigTrim(SubSeq(x, 1, Len(x) - 1))
    ELSE x

\* quotient and remainder of x by a small d, from the highest digit down
RECURSIVE BigDivDigits(_, _, _)
BigDivDigits(x, d, rem) ==
    IF x = <<>>
    THEN [q |-> <<>>, r |-> rem]
    ELSE LET v == rem * BigBase + x[Len(x)]
             rest == BigDivDigits(SubSeq(x, 1, Len(x) - 1), d, v % d)
         IN [q |-> rest.q \o <<v \div d>>, r |-> rest.r]

BigDivSmall(x, d, rem) ==
    LET qr == BigDivDigits(x, d, rem) IN [q |-> BigTrim(qr.q), r |-> qr.r]

\* x < y, x = y, x > y as -1, 0, 1
RECURSIVE BigCmp(_, _)
BigCmp(x, y) ==
    IF Len(x) # Len(y) THEN (IF Len(x) < Len(y) THEN -1 ELSE 1)
    ELSE IF x = <<>> THEN 0
    ELSE IF x[Len(x)] # y[Len(y)]
    THEN (IF x[Len(x)] < y[Len(y)] THEN -1 ELSE 1)
    ELSE BigCmp(SubSeq(x, 1, Len(x) - 1), SubSeq(y, 1, Len(y) - 1))

\* The double nearest to x * 2^-e / d (round half to even), for x > 0: the
\* numerator is doubled until the quotient has 53 bits.
RECURSIVE DoubleDiv(_, _, _)
DoubleDiv(x, e, d) ==
    LET qr == BigDivSmall(x, d, 0)
        two52 == BigShift(<<1>>, 52)
    IN  IF BigCmp(qr.q, two52) < 0
        THEN DoubleDiv(BigMulSmall(x, 2, 0), e + 1, d)
        ELSE LET odd == qr.q[1] % 2 = 1
                 up == 2 * qr.r > d \/ (2 * qr.r = d /\ odd)
                 m == IF up THEN BigMulSmall(qr.q, 1, 1) ELSE qr.q
             IN  IF BigCmp(m, BigShift(<<1>>, 53)) = 0
                 THEN [m |-> two52, e |-> e - 1]
                 ELSE [m |-> m, e |-> e]

\* float(n / d) for small naturals n > 0 and d > 0 with n / d < 2^52
Double(n, d) == DoubleDiv(BigOf(n), 0, d)

\* k * y <= x for doubles x, y and a small k
LeqMultiple(k, y, x) ==
    LET sh == IF x.e < y.e THEN x.e ELSE y.e IN
    BigCmp(BigShift(BigMulSmall(y.m, k, 0), x.e - sh),
           BigShift(x.m, y.e - sh)) <= 0

\* Symbols a caller names: two the exchange lists and one it does not.
RestSymbols == {"BTCUSDT", "XRPUSDT", "BTCUSD"}

\* futures_exchange_info as refresh_symbols_info reads it (lines 47-56):
\* quantities in units of 0.001, tick in units of 0.0001, notional in dollars;
\* XRPUSDT has no MIN_NOTIONAL filter.
ExchangeInfo ==
    [sym \in {"BTCUSDT", "XRPUSDT"} |->
        IF sym = "BTCUSDT"
        THEN [min_qty |-> 1, qty_step |-> 1, qty_precision |-> 3,
              price_precision |-> 1, price_tick |-> 1000, min_notional |-> 5]
        ELSE [min_qty |-> 100, qty_step |-> 100, qty_precision |-> 1,
              price_precision |-> 4, price_tick |-> 1, min_notional |-> 0]]

\* refresh_symbols_info, lines 43-59: the cache after the call.  "ok": every
\* symbol is read; "error": the request raises, the cache stays; "partial":
\* the cache was emptied and a symbol's data raised after BTCUSDT was read.
RefreshOutcomes == {"ok", "error", "partial"}
RefreshedInfo(outcome) ==
    IF outcome = "ok" THEN ExchangeInfo
    ELSE IF outcome = "partial"
    THEN [sym \in {"BTCUSDT"} |-> ExchangeInfo[sym]]
    ELSE symbols_info

\* symbol.endswith('USDT')
EndsWithUSDT(symbol) == symbol \in {"BTCUSDT", "XRPUSDT"}

\* raw_quantity - (raw_quantity % step_size), lines 493-500, as the number
\* of steps left: the largest k with k * step <= raw on the doubles.
RECURSIVE FloorSteps(_, _, _)
FloorSteps(raw, step, k) ==
    IF LeqMultiple(k + 1, step, raw) THEN FloorSteps(raw, step, k + 1) ELSE k

\* round(quantity, qty_precision), line 503, of quantity = k * step: the
\* nearest multiple of 10^-precision, as its number n of such units.  No
\* quantity of the model lies halfway between two of them.
RECURSIVE RoundDigits(_, _, _, _)
RoundDigits(k, step, precision, n) ==
    IF BigCmp(BigMulSmall(BigMulSmall(step.m, 2 * k, 0), 10 ^ precision, 0),
              BigShift(BigOf(2 * n + 1), step.e)) < 0
    THEN n
    ELSE RoundDigits(k, step, precision, n + 1)

\* Lines 493-517: the quantity for usdt_amount (cents) at price (dollars),
\* in units of 0.001; <<>> is None.
QuantityFromUsdt(info, usdt_amount, price) ==
    LET amount == IF usdt_amount % 100 = 0
                  THEN [m |-> BigOf(usdt_amount \div 100), e |-> 0]
                  ELSE Double(usdt_amount, 100)
        step_size == Double(info.qty_step, 1000)
        k == IF usdt_amount = 0 THEN 0
             ELSE FloorSteps(DoubleDiv(amount.m, amount.e, price),
                             step_size, 0)
        quantity == RoundDigits(k, step_size, info.qty_precision, 0)
                        * (10 ^ (3 - info.qty_precision))
    IN  IF quantity < info.min_qty THEN <<>>
        ELSE IF quantity * price < info.min_notional * 1000 THEN <<>>
        ELSE <<quantity>>

\* Arguments of calculate_quantity_from_usdt: <<usdt_amount, price>>, the
\* amount in cents and the ticker price of the symbol at the call in dollars
\* (0: the ticker request fails).
Quotes(symbol) ==
    IF symbol = "XRPUSDT"
    THEN {<<400, 200>>, <<10000, 200>>, <<45000, 200>>, <<10000, 0>>}
    ELSE {<<1, 50000>>, <<10000, 50000>>, <<45000, 50000>>, <<400, 4000>>,
          <<1200, 4000>>, <<10000, 0>>}

\* QuantityFromUsdt on the metadata of the exchange, computed once for the
\* quotes above.
QuantityTable ==
    [sym \in DOMAIN ExchangeInfo |->
        [quote \in {q \in Quotes(sym) : q[2] # 0} |->
            QuantityFromUsdt(ExchangeInfo[sym], quote[1], quote[2])]]

\* Lines 493-517 on the cached info of symbol.
Quantity(symbol, info, usdt_amount, price) ==
    IF /\ symbol \in DOMAIN QuantityTable
       /\ info = ExchangeInfo[symbol]
       /\ <<usdt_amount, price>> \in DOMAIN QuantityTable[symbol]
    THEN QuantityTable[symbol][<<usdt_amount, price>>]
    ELSE QuantityFromUsdt(info, usdt_amount, price)

\* Arguments of the rounding helpers: quantities in units of 0.00001, prices
\* in units of 0.0001.
QuantitySamples == {50, 149, 5000, 12300}
PriceSamples == {50, 500, 1234}

\* The symbol orders and positions are about.
OrderSymbols == {"BTCUSDT"}

\* futures_position_information(symbol): positionAmt of each row returned,
\* in units of 0.001 (two rows in hedge mode).
PositionRows == {<<>>, <<0>>, <<5>>, <<-3>>, <<0, -3>>}

\* PRICE_FILTER tickSize of the symbols the exchange lists, in units of
\* 0.0001 (0.01 for ETHUSDT, 0.1 for BTCUSDT, 0.0001 for XRPUSDT).
ExchangeTickSize ==
    [sym \in DOMAIN ExchangeLotStep |->
        IF sym \in DOMAIN ExchangeInfo THEN ExchangeInfo[sym].price_tick
        ELSE 100]

\* _get_symbol_info, lines 392-406: the secondary cache after a lookup of
\* symbol; rest_ok: the exchange-info request succeeds.
CacheAfterLookup(symbol, rest_ok) ==
    IF symbol \in symbol_info_cache \/ ~rest_ok
    THEN symbol_info_cache
    ELSE symbol_info_cache \cup ({symbol} \cap DOMAIN ExchangeLotStep)

\* round_price_to_tick, lines 410-424: with symbol info the PRICE_FILTER tick
\* decides; without it a symbol containing USDT is rounded to 0.01 and any
\* other is returned as it came.
round_price_to_tick(symbol, price, have_info) ==
    IF have_info THEN RoundHalfUp(price, ExchangeTickSize[symbol])
    ELSE IF ContainsUSDT(symbol) THEN RoundHalfUp(price, 100)
    ELSE price

\* The record of a call.
Call(op, symbol, arg, result, refreshes) ==
    [op |-> op, symbol |-> symbol, arg |-> arg, result |-> result,
     refreshes |-> refreshes]

\* refresh_symbols_info()
RefreshSymbolsInfo(outcome) ==
    /\ symbols_info' = RefreshedInfo(outcome)
    /\ last' = Call("refresh_symbols_info", "", 0, <<>>, 1)
    /\ UNCHANGED <<orders, symbol_info_cache>>
    /\ UNCHANGED <<wsVars, subVars, strategyVars, toolVars>>

\* get_symbol_info(symbol), line 63
GetSymbolInfo(symbol) ==
    /\ last' = Call("get_symbol_info", symbol, 0,
                    IF symbol \in DOMAIN symbols_info
                    THEN <<symbols_info[symbol]>> ELSE <<>>, 0)
    /\ UNCHANGED <<symbols_info, orders, symbol_info_cache>>
    /\ UNCHANGED <<wsVars, subVars, strategyVars, toolVars>>

\* A refresh on every priced call, whatever the cache holds.
RefreshAlways(symbol, price) == EndsWithUSDT(symbol) /\ price # 0

\* Lines 473-486: refresh_symbols_info is reached for a USDT pair with a
\* price whose lookup misses.
NeedsRefresh(symbol, price) ==
    /\ EndsWithUSDT(symbol)
    /\ price # 0
    /\ symbol \notin DOMAIN symbols_info

\* calculate_quantity_from_usdt(symbol, usdt_amount), lines 471-521; price is
\* what get_price returns.  The cache is refreshed, with any outcome, when
\* the symbol is missing from it (lines 484-486).
CalculateQuantityFromUsdt(symbol, usdt_amount, price) ==
    LET priced == EndsWithUSDT(symbol) /\ price # 0
        refresh == NeedsRefresh(symbol, price)
    IN  /\ \E outcome \in IF refresh THEN RefreshOutcomes ELSE {"error"} :
               symbols_info' = RefreshedInfo(outcome)
        /\ last' = Call("calculate_quantity_from_usdt", symbol,
                        <<usdt_amount, price>>,
                        IF priced /\ symbol \in DOMAIN symbols_info'
                        THEN Quantity(symbol, symbols_info'[symbol],
                                      usdt_amount, price)
                        ELSE <<>>,
                        IF refresh THEN 1 ELSE 0)
        /\ UNCHANGED <<orders, symbol_info_cache>>
        /\ UNCHANGED <<wsVars, subVars, strategyVars, toolVars>>

\* round_quantity_to_lot(symbol, quantity)
RoundQuantityToLot(symbol, quantity, rest_ok) ==
    /\ symbol_info_cache' = CacheAfterLookup(symbol, rest_ok)
    /\ last' = Call("round_quantity_to_lot", symbol, quantity,
                    <<round_quantity_to_lot(symbol, quantity,
                                            symbol \in symbol_info_cache')>>,
                    0)
    /\ UNCHANGED <<symbols_info, orders>>
    /\ UNCHANGED <<wsVars, subVars, strategyVars, toolVars>>

\* round_price_to_tick(symbol, price)
RoundPriceToTick(symbol, price, rest_ok) ==
    /\ symbol_info_cache' = CacheAfterLookup(symbol, rest_ok)
    /\ last' = Call("round_price_to_tick", symbol, price,
                    <<round_price_to_tick(symbol, price,
                                          symbol \in symbol_info_cache')>>,
                    0)
    /\ UNCHANGED <<symbols_info, orders>>
    /\ UNCHANGED <<wsVars, subVars, strategyVars, toolVars>>

\* get_position(symbol), lines 326-343, on the rows the exchange returns
\* (pos_ok: the request succeeds): the first row with a non-zero amount.
RECURSIVE FirstOpen(_)
FirstOpen(rows) ==
    IF rows = <<>> THEN <<>>
    ELSE IF Head(rows) # 0
    THEN <<[amount |-> Head(rows),
            side |-> IF Head(rows) > 0 THEN "LONG" ELSE "SHORT"]>>
    ELSE FirstOpen(Tail(rows))

get_position(rows, pos_ok) == IF pos_ok THEN FirstOpen(rows) ELSE <<>>

GetPosition(symbol, rows, pos_ok) ==
    /\ last' = Call("get_position", symbol, rows, get_position(rows, pos_ok), 0)
    /\ UNCHANGED <<symbols_info, orders, symbol_info_cache>>
    /\ UNCHANGED <<wsVars, subVars, strategyVars, toolVars>>

\* The amount with its sign kept.
Signed(x) == x

\* abs(x)
Abs(x) == IF x < 0 THEN -x ELSE x

\* create_market_order, lines 240-252: the request sent and what is returned
\* (order_ok: the exchange accepts it).
Order(symbol, side, quantity, reduce_only) ==
    [symbol |-> symbol, side |-> side, type |-> "MARKET",
     quantity |-> quantity, reduceOnly |-> reduce_only]

CreateMarketOrder(symbol, side, quantity, order_ok) ==
    /\ Len(orders) < MaxOrders
    /\ orders' = Append(orders, Order(symbol, side, quantity, FALSE))
    /\ last' = Call("create_market_order", symbol, quantity,
                    IF order_ok THEN <<orders'[Len(orders')]>> ELSE <<>>, 0)
    /\ UNCHANGED <<symbols_info, symbol_info_cache>>
    /\ UNCHANGED <<wsVars, subVars, strategyVars, toolVars>>

\* close_position(symbol), lines 370-378.
ClosePosition(symbol, rows, pos_ok, order_ok) ==
    LET position == get_position(rows, pos_ok)
        exchange == [rows |-> rows, pos_ok |-> pos_ok, order_ok |-> order_ok]
    IN
    /\ position = <<>> \/ Len(orders) < MaxOrders
    /\ IF position = <<>>
       THEN /\ orders' = orders
            /\ last' = Call("close_position", symbol, exchange, <<>>, 0)
       ELSE LET quantity == Abs(position[1].amount)
                side == IF position[1].side = "LONG" THEN "SELL" ELSE "BUY"
            IN  /\ orders' = Append(orders, Order(symbol, side, quantity, TRUE))
                /\ last' = Call("close_position", symbol, exchange,
                                IF order_ok THEN <<orders'[Len(orders')]>>
                                ELSE <<>>, 0)
    /\ UNCHANGED <<symbols_info, symbol_info_cache>>
    /\ UNCHANGED <<wsVars, subVars, strategyVars, toolVars>>

\* __init__, lines 38-39; the secondary cache does not exist yet.
InitRest ==
    /\ symbols_info = <<>>
    /\ orders = <<>>
    /\ last = Call("__init__", "", 0, <<>>, 0)

NextRest ==
    \/ \E outcome \in RefreshOutcomes : RefreshSymbolsInfo(outcome)
    \/ \E symbol \in RestSymbols : GetSymbolInfo(symbol)
    \/ \E symbol \in RestSymbols : \E quote \in Quotes(symbol) :
          CalculateQuantityFromUsdt(symbol, quote[1], quote[2])
    \/ \E symbol \in RestSymbols, quantity \in QuantitySamples,
          rest_ok \in BOOLEAN : RoundQuantityToLot(symbol, quantity, rest_ok)
    \/ \E symbol \in RestSymbols, price \in PriceSamples,
          rest_ok \in BOOLEAN : RoundPriceToTick(symbol, price, rest_ok)
    \/ \E symbol \in OrderSymbols, rows \in PositionRows, pos_ok \in BOOLEAN :
          GetPosition(symbol, rows, pos_ok)
    \/ \E symbol \in OrderSymbols, order_ok \in BOOLEAN :
          CreateMarketOrder(symbol, "BUY", 2, order_ok)
    \/ \E symbol \in OrderSymbols, rows \in PositionRows,
          pos_ok, order_ok \in BOOLEAN :
          ClosePosition(symbol, rows, pos_ok, order_ok)

(***************************************************************************)
(* Part IV: the candle download                                            *)
(* (src/examples/liquidation_analysing/002_download_candles.py).           *)
(* The process can be killed between two statements; the file system       *)
(* keeps what was written.  json.dump and json.load of lists of strings    *)
(* give the lists back.                                                    *)
(***************************************************************************)

SummarySymbols == {"BTCUSDT", "ETHUSDT", "XRPUSDT"}

\* sorted(list(set(...))), 001_load_liquidations.py line 25
Sorted(set) ==
    LET in(s) == s \in set
    IN  SelectSeq(<<"BTCUSDT", "ETHUSDT", "XRPUSDT">>, in)

\* info['symbols']: the symbols of the liquidations, once each and sorted
Summaries ==
    {Sorted(set) : set \in {S \in SUBSET SummarySymbols :
                                Cardinality(S) <= MaxSummary}}

\* What get_historical_klines and save_candles_to_csv do for a symbol:
\* candles saved, an empty answer, or an exception.
DownloadOutcomes == {"candles", "nodata", "error"}

\* load_progress(), lines 52-57
load_progress ==
    IF progress_file # <<>> THEN progress_file[1]
    ELSE [completed |-> <<>>, failed |-> <<>>]

\* Every symbol of the summary, completed or not.
RemainingAll(symbols, done) == symbols

\* [s for s in symbols if s not in completed], line 83
Remaining(symbols, done) ==
    LET keep(s) == s \notin ToSet(done) IN SelectSeq(symbols, keep)

\* main(), lines 68-99: the progress is loaded and the loop entered, or the
\* run returns at line 96.
RunBegin ==
    /\ dl_pc \in {"idle", "done"}
    /\ runs < MaxRuns
    /\ runs' = runs + 1
    /\ completed' = load_progress.completed
    /\ failed' = load_progress.failed
    /\ remaining_symbols' = Remaining(info_symbols, completed')
    /\ dl_i' = 1
    /\ processed' = 0
    /\ saves' = 0
    /\ dl_pc' = IF remaining_symbols' = <<>> THEN "done" ELSE "download"
    /\ UNCHANGED <<info_symbols, progress_file, csv_files, csv_partial,
                   downloads, completed_in>>
    /\ UNCHANGED <<wsVars, subVars, ctVars, restVars, dbVars, sumVars,
                 otherVars>>

\* get_historical_klines for one symbol of the loop, lines 114-125: candles
\* to be saved, or the symbol is appended to failed on line 131 (no data) or
\* line 148 (the call raised).
Download(outcome) ==
    /\ dl_pc = "download"
    /\ LET symbol == remaining_symbols[dl_i] IN
       /\ downloads' = Append(downloads, <<runs, symbol>>)
       /\ failed' = IF outcome = "candles" THEN failed
                    ELSE Append(failed, symbol)
    /\ processed' = processed + 1
    /\ dl_pc' = IF outcome = "candles" THEN "write" ELSE "save"
    /\ UNCHANGED <<info_symbols, progress_file, csv_files, csv_partial,
                   completed, remaining_symbols, dl_i, runs, saves,
                   completed_in>>
    /\ UNCHANGED <<wsVars, subVars, ctVars, restVars, dbVars, sumVars,
                 otherVars>>

\* A file that is not written to its end.
NotWritten(files, symbol) == files

\* A file written to its end and closed.
Written(files, symbol) == files \cup {symbol}

\* save_candles_to_csv, line 33: open(filename, 'w') empties the file, or
\* raises and the handler of line 148 records the symbol as failed.
OpenCsv(ok) ==
    /\ dl_pc = "write"
    /\ LET symbol == remaining_symbols[dl_i] IN
       IF ok
       THEN /\ csv_files' = csv_files \ {symbol}
            /\ csv_partial' = csv_partial \cup {symbol}
            /\ dl_pc' = "rows"
            /\ UNCHANGED failed
       ELSE /\ failed' = Append(failed, symbol)
            /\ dl_pc' = "save"
            /\ UNCHANGED <<csv_files, csv_partial>>
    /\ UNCHANGED <<info_symbols, progress_file, completed, remaining_symbols,
                   dl_i, runs, downloads, processed, saves, completed_in>>
    /\ UNCHANGED <<wsVars, subVars, ctVars, restVars, dbVars, sumVars,
                 otherVars>>

\* save_candles_to_csv, lines 34-49, and line 128: the rows are written, the
\* file is closed and the symbol is appended to completed; or a write raises
\* and the handler of line 148 records the symbol as failed.
WriteCsv(ok) ==
    /\ dl_pc = "rows"
    /\ LET symbol == remaining_symbols[dl_i] IN
       IF ok
       THEN /\ csv_files' = Written(csv_files, symbol)
            /\ csv_partial' = csv_partial \ {symbol}
            /\ completed' = Append(completed, symbol)
            /\ UNCHANGED failed
       ELSE /\ failed' = Append(failed, symbol)
            /\ UNCHANGED <<csv_files, csv_partial, completed>>
    /\ dl_pc' = "save"
    /\ UNCHANGED <<info_symbols, progress_file, remaining_symbols, dl_i, runs,
                   downloads, processed, saves, completed_in>>
    /\ UNCHANGED <<wsVars, subVars, ctVars, restVars, dbVars, sumVars,
                 otherVars>>

\* save_progress of line 134 or 149, then the next symbol or the summary of
\* lines 152-164.
SaveProgress ==
    /\ dl_pc = "save"
    /\ progress_file' = <<[completed |-> completed, failed |-> failed]>>
    /\ saves' = saves + 1
    /\ completed_in' =
           [s \in SummarySymbols |->
               IF completed_in[s] = 0 /\ s \in ToSet(completed)
               THEN runs ELSE completed_in[s]]
    /\ IF dl_i < Len(remaining_symbols)
       THEN dl_i' = dl_i + 1 /\ dl_pc' = "download"
       ELSE dl_i' = dl_i /\ dl_pc' = "done"
    /\ UNCHANGED <<info_symbols, csv_files, csv_partial, completed, failed,
                   remaining_symbols, runs, downloads, processed>>
    /\ UNCHANGED <<wsVars, subVars, ctVars, restVars, dbVars, sumVars,
                 otherVars>>

\* The process is killed inside the loop.
Kill ==
    /\ dl_pc \in {"download", "write", "rows", "save"}
    /\ dl_pc' = "idle"
    /\ UNCHANGED <<info_symbols, progress_file, csv_files, csv_partial,
                   completed, failed,
                   remaining_symbols, dl_i, runs, downloads, processed,
                   saves, completed_in>>
    /\ UNCHANGED <<wsVars, subVars, ctVars, restVars, dbVars, sumVars,
                 otherVars>>

\* Before the first run: the summary exists, nothing else does.
InitDownload(symbols) ==
    /\ info_symbols = symbols
    /\ progress_file = <<>>
    /\ csv_files = {}
    /\ csv_partial = {}
    /\ dl_pc = "idle"
    /\ completed = <<>>
    /\ failed = <<>>
    /\ remaining_symbols = <<>>
    /\ dl_i = 1
    /\ runs = 0
    /\ downloads = <<>>
    /\ processed = 0
    /\ saves = 0
    /\ completed_in = [s \in SummarySymbols |-> 0]

NextDownload ==
    \/ RunBegin
    \/ \E outcome \in DownloadOutcomes : Download(outcome)
    \/ \E ok \in BOOLEAN : OpenCsv(ok)
    \/ \E ok \in BOOLEAN : WriteCsv(ok)
    \/ SaveProgress
    \/ Kill

(***************************************************************************)
(* Part V: the lead positions of the analysis database                     *)
(* (src/examples/lead_trader_analysis/web/database.py).  Each call opens   *)
(* its own connection and commits before it returns; a call that raises    *)
(* leaves its transaction uncommitted, which sqlite rolls back.            *)
(***************************************************************************)

LeadTraders == {1, 2}

\* The positions a caller passes: symbol, side and size of each.
Position(symbol, side, size) ==
    [symbol |-> symbol, side |-> side, size |-> size]

PositionLists ==
    {<<>>,
     <<Position("BTCUSDT", "BUY", 2)>>,
     <<Position("ETHUSDT", "SELL", 5)>>,
     <<Position("ETHUSDT", "SELL", 5), Position("BTCUSDT", "BUY", 2)>>,
     <<Position("BTCUSDT", "BUY", 2), Position("BTCUSDT", "SELL", 1)>>}

\* UNIQUE(lead_trader_id, symbol), line 73, on the rows one call inserts for
\* one trader.
UniqueSymbols(positions) ==
    \A m, n \in DOMAIN positions :
        positions[m].symbol = positions[n].symbol => m = n

\* No DELETE: every row stays.
KeptAll(table, lead_trader_id) == table

\* DELETE FROM lead_positions WHERE lead_trader_id = ?, line 237: the rows
\* left.
Kept(table, lead_trader_id) ==
    LET other(row) == row.lead_trader_id # lead_trader_id
    IN  SelectSeq(table, other)

\* The INSERTs of lines 240-246: one row per position, ids from first_id
\* on; copy_balance_coeff, which the positions do not name, is 0.01, kept in
\* hundredths.
RowsFrom(first_id, lead_trader_id, positions) ==
    [n \in DOMAIN positions |->
        [id |-> first_id + n - 1, lead_trader_id |-> lead_trader_id,
         symbol |-> positions[n].symbol, side |-> positions[n].side,
         size |-> positions[n].size, copy_balance_coeff |-> 1]]

Inserted(lead_trader_id, positions) ==
    RowsFrom(next_id, lead_trader_id, positions)

\* SELECT * FROM lead_positions WHERE lead_trader_id = ? ORDER BY id, lines
\* 258-268.
get_lead_positions(table, lead_trader_id) ==
    LET mine(row) == row.lead_trader_id = lead_trader_id
    IN  SelectSeq(table, mine)

\* update_lead_positions(lead_trader_id, positions), lines 231-251.  An
\* INSERT that breaks the UNIQUE constraint raises sqlite3.IntegrityError
\* before the commit: the call raises and the table is as before.
UpdateLeadPositions(lead_trader_id, positions) ==
    /\ db_last.updates < MaxUpdates
    /\ IF UniqueSymbols(positions)
       THEN /\ lead_positions' = Kept(lead_positions, lead_trader_id)
                                     \o Inserted(lead_trader_id, positions)
            /\ next_id' = next_id + Len(positions)
            /\ db_last' = [op |-> "update_lead_positions",
                           lead_trader_id |-> lead_trader_id,
                           positions |-> positions, result |-> "True",
                           updates |-> db_last.updates + 1]
       ELSE /\ UNCHANGED <<lead_positions, next_id>>
            /\ db_last' = [op |-> "update_lead_positions",
                           lead_trader_id |-> lead_trader_id,
                           positions |-> positions, result |-> "raised",
                           updates |-> db_last.updates + 1]
    /\ UNCHANGED <<wsVars, subVars, ctVars, restVars, dlVars, sumVars,
                 otherVars>>

\* get_lead_positions(lead_trader_id)
GetLeadPositions(lead_trader_id) ==
    /\ db_last' = [op |-> "get_lead_positions",
                   lead_trader_id |-> lead_trader_id,
                   positions |-> <<>>,
                   result |-> get_lead_positions(lead_positions,
                                                 lead_trader_id),
                   updates |-> db_last.updates]
    /\ UNCHANGED <<lead_positions, next_id>>
    /\ UNCHANGED <<wsVars, subVars, ctVars, restVars, dlVars, sumVars,
                 otherVars>>

\* init_database, lines 22-95, on a new file
InitDb ==
    /\ lead_positions = <<>>
    /\ next_id = 1
    /\ db_last = [op |-> "init_database", lead_trader_id |-> 0,
                  positions |-> <<>>, result |-> "", updates |-> 0]

NextDb ==
    \/ \E lead_trader_id \in LeadTraders, positions \in PositionLists :
          UpdateLeadPositions(lead_trader_id, positions)
    \/ \E lead_trader_id \in LeadTraders : GetLeadPositions(lead_trader_id)

(***************************************************************************)
(* Part VI: the trade summary of the analysis application                  *)
(* (src/examples/lead_trader_analysis/web/app.py, get_trade_summary).      *)
(* Sizes are REAL columns, Python floats: their sums, differences and      *)
(* quotients are computed here as IEEE-754 does, on doubles m * 2^-e kept  *)
(* as in Part III, with m = <<>> for 0.0.                                  *)
(***************************************************************************)

\* x + y + carry
RECURSIVE BigAdd(_, _, _)
BigAdd(x, y, carry) ==
    IF x = <<>> /\ y = <<>> THEN BigOf(carry)
    ELSE LET a == IF x = <<>> THEN 0 ELSE Head(x)
             b == IF y = <<>> THEN 0 ELSE Head(y)
             v == a + b + carry
         IN  <<v % BigBase>>
                 \o BigAdd(IF x = <<>> THEN x ELSE Tail(x),
                           IF y = <<>> THEN y ELSE Tail(y), v \div BigBase)

\* the digits of x - y - borrow, for x >= y
RECURSIVE BigSubDigits(_, _, _)
BigSubDigits(x, y, borrow) ==
    IF x = <<>> THEN <<>>
    ELSE LET b == IF y = <<>> THEN 0 ELSE Head(y)
             v == Head(x) - b - borrow
         IN  <<v % BigBase>>
                 \o BigSubDigits(Tail(x), IF y = <<>> THEN y ELSE Tail(y),
                                 IF v < 0 THEN 1 ELSE 0)

BigSub(x, y) == BigTrim(BigSubDigits(x, y, 0))

\* the number of bits of a digit, and of x
RECURSIVE DigitBits(_)
DigitBits(d) == IF d = 0 THEN 0 ELSE 1 + DigitBits(d \div 2)

BitLen(x) == IF x = <<>> THEN 0 ELSE 15 * (Len(x) - 1) + DigitBits(x[Len(x)])

\* x \div 2^n
ShiftRight(x, n) ==
    LET drop == n \div 15
        rest == IF drop >= Len(x) THEN <<>> ELSE SubSeq(x, drop + 1, Len(x))
    IN  BigDivSmall(rest, 2 ^ (n % 15), 0).q

\* x as a number, for x < 2^31
RECURSIVE BigToInt(_)
BigToInt(x) == IF x = <<>> THEN 0 ELSE Head(x) + BigBase * BigToInt(Tail(x))

\* x * 2^-n rounded to a whole number, half to even
RoundShift(x, n) ==
    IF n <= 0 THEN BigShift(x, -n)
    ELSE LET q == ShiftRight(x, n)
             r == BigSub(x, BigShift(q, n))
             c == BigCmp(r, BigShift(<<1>>, n - 1))
             odd == q # <<>> /\ q[1] % 2 = 1
         IN  IF c > 0 \/ (c = 0 /\ odd) THEN BigAdd(q, <<>>, 1) ELSE q

Zero == [m |-> <<>>, e |-> 0]

\* The double nearest to x * 2^-e (round half to even).
Norm(x, e) ==
    IF x = <<>> THEN Zero
    ELSE LET bits == BitLen(x) IN
         IF bits <= 53
         THEN [m |-> BigShift(x, 53 - bits), e |-> e + 53 - bits]
         ELSE LET m == RoundShift(x, bits - 53) IN
              IF BitLen(m) > 53
              THEN [m |-> ShiftRight(m, 1), e |-> e - (bits - 53) - 1]
              ELSE [m |-> m, e |-> e - (bits - 53)]

\* The mantissas of x and y on their common exponent.
Aligned(x, y) ==
    LET e == IF x.e > y.e THEN x.e ELSE y.e IN
    [x |-> BigShift(x.m, e - x.e), y |-> BigShift(y.m, e - y.e), e |-> e]

\* x < y, x = y, x > y as -1, 0, 1, for doubles x, y >= 0
DCmp(x, y) ==
    IF x.m = <<>> \/ y.m = <<>>
    THEN (IF x.m = y.m THEN 0 ELSE IF x.m = <<>> THEN -1 ELSE 1)
    ELSE BigCmp(Aligned(x, y).x, Aligned(x, y).y)

\* x + y and x - y (x >= y) for doubles x, y >= 0
DAdd(x, y) ==
    IF x.m = <<>> THEN y
    ELSE IF y.m = <<>> THEN x
    ELSE LET a == Aligned(x, y) IN Norm(BigAdd(a.x, a.y, 0), a.e)

DSub(x, y) ==
    IF y.m = <<>> THEN x
    ELSE LET a == Aligned(x, y) IN Norm(BigSub(a.x, a.y), a.e)

\* x * k for a double x and a whole number k
DMulSmall(x, k) == Norm(BigMulSmall(x.m, k, 0), x.e)

\* The quotient and the remainder of r by d, for r < d * 2^(hi+1): the bits
\* hi down to lo of the quotient, most significant first.
RECURSIVE LongDiv(_, _, _, _)
LongDiv(r, d, hi, lo) ==
    IF hi < lo THEN [q |-> <<>>, r |-> r]
    ELSE LET t == BigShift(d, hi)
             take == BigCmp(t, r) <= 0
             rest == LongDiv(IF take THEN BigSub(r, t) ELSE r, d, hi - 1, lo)
         IN  [q |-> IF take THEN BigAdd(rest.q, BigShift(<<1>>, hi), 0)
                    ELSE rest.q,
              r |-> rest.r]

\* The same, all bits from hi down, eight bits at a time.
RECURSIVE BigDivide(_, _, _)
BigDivide(r, d, hi) ==
    IF hi < 0 THEN [q |-> <<>>, r |-> r]
    ELSE LET lo == IF hi >= 8 THEN hi - 7 ELSE 0
             high == LongDiv(r, d, hi, lo)
             low == BigDivide(high.r, d, lo - 1)
         IN  [q |-> BigAdd(high.q, low.q, 0), r |-> low.r]

\* x / y for doubles x >= 0, y > 0: the quotient of the mantissas to 57
\* bits and a sticky bit for the remainder, rounded once.
DDivide(x, y) ==
    IF x.m = <<>> THEN Zero
    ELSE LET qr == BigDivide(BigShift(x.m, 55), y.m, 56)
             sticky == IF qr.r = <<>> THEN 0 ELSE 1
         IN  Norm(BigMulSmall(qr.q, 2, sticky), 56 + x.e - y.e)

\* round(x, 2) for a double x >= 0, as a number of hundredths
Round2(x) ==
    IF x.m = <<>> THEN 0
    ELSE BigToInt(RoundShift(BigMulSmall(x.m, 100, 0), x.e))

\* float of the decimal n / d
DoubleOf(n, d) == IF n = 0 THEN Zero ELSE Double(n, d)

\* A signed double: its magnitude v and whether it is below zero.
Signed0 == [neg |-> FALSE, v |-> Zero]

\* a - b for signed doubles
SignedSub(a, b) ==
    IF a.neg # b.neg /\ a.v.m # <<>> /\ b.v.m # <<>>
    THEN [neg |-> a.neg, v |-> DAdd(a.v, b.v)]
    ELSE IF a.v.m = <<>> THEN [neg |-> b.v.m # <<>> /\ ~b.neg, v |-> b.v]
    ELSE IF b.v.m = <<>> THEN a
    ELSE IF DCmp(a.v, b.v) > 0 THEN [neg |-> a.neg, v |-> DSub(a.v, b.v)]
    ELSE IF DCmp(a.v, b.v) < 0 THEN [neg |-> ~a.neg, v |-> DSub(b.v, a.v)]
    ELSE Signed0

\* The symbols of the summary, as sort() orders them.
SummaryOrder == <<"BTCUSDT", "ETHUSDT">>

\* get_lead_traders(user_id), database.py lines 174-190: the active rows
get_lead_traders(traders) ==
    LET active(trader) == trader.is_active IN SelectSeq(traders, active)

\* Lines 288-293: the size of a position as it is mirrored, and its side.
Mirrored(trader, copy_balance_size) ==
    IF trader.reverse_trading
    THEN DMulSmall(copy_balance_size, trader.reverse_coefficient)
    ELSE copy_balance_size

CalculatedSize(trader, pos) ==
    Mirrored(trader, DMulSmall(DoubleOf(pos.copy_balance_coeff, 100), pos.size))

CalculatedSide(trader, pos) ==
    IF trader.reverse_trading
    THEN (IF pos.side = "BUY" THEN "SELL" ELSE "BUY")
    ELSE pos.side

\* Lines 282-302: calculated_positions[symbol][side] after the first n
\* positions read; absent: the key is missing.
RECURSIVE CalculatedSum(_, _, _, _)
CalculatedSum(read, n, symbol, side) ==
    IF n = 0 THEN [absent |-> TRUE, v |-> Zero]
    ELSE LET before == CalculatedSum(read, n - 1, symbol, side)
             trader == read[n].trader
             pos == read[n].pos
             calculated_side == CalculatedSide(trader, pos)
         IN  IF pos.symbol # symbol \/ calculated_side \notin {"BUY", "SELL"}
             THEN before
             ELSE IF calculated_side = side
             THEN [absent |-> FALSE,
                   v |-> DAdd(before.v, CalculatedSize(trader, pos))]
             ELSE [absent |-> FALSE, v |-> before.v]

\* The positions of the traders in the order the loops of lines 276-279
\* read them.
RECURSIVE PositionsRead(_, _)
PositionsRead(traders, positions) ==
    IF traders = <<>> THEN <<>>
    ELSE LET rows == get_lead_positions(positions, Head(traders).id)
         IN  [n \in DOMAIN rows |-> [trader |-> Head(traders), pos |-> rows[n]]]
                 \o PositionsRead(Tail(traders), positions)

\* Lines 305-319: actual_by_symbol[symbol][side] after the first n cached
\* positions of the user, sizes in hundredths.
RECURSIVE ActualSum(_, _, _, _)
ActualSum(user, n, symbol, side) ==
    IF n = 0 THEN [absent |-> TRUE, v |-> Zero]
    ELSE LET before == ActualSum(user, n - 1, symbol, side)
             pos == user[n]
         IN  IF pos.symbol # symbol \/ pos.side \notin {"BUY", "SELL"}
             THEN before
             ELSE IF pos.side = side
             THEN [absent |-> FALSE,
                   v |-> DAdd(before.v, DoubleOf(pos.size, 100))]
             ELSE [absent |-> FALSE, v |-> before.v]

\* Lines 345-350: difference_percent, in hundredths.
DifferencePercent(difference_abs, calc_size, actual_size) ==
    IF calc_size.m # <<>>
    THEN Round2(DMulSmall(DDivide(difference_abs, calc_size), 100))
    ELSE IF actual_size.m # <<>> THEN 10000 ELSE 0

\* Lines 330-331: the net of a symbol, BUY less SELL.
Net(buy, sell) ==
    SignedSub([neg |-> FALSE, v |-> buy], [neg |-> FALSE, v |-> sell])

\* Lines 333-368: the row of a symbol from its nets and their difference.
RowOf(symbol, listed, calc_net, actual_net, difference_net) ==
    [symbol |-> symbol,
     listed |-> listed,
     calculated_side |-> IF calc_net.neg THEN "SELL" ELSE "BUY",
     calculated_size |-> calc_net.v,
     actual_side |-> IF actual_net.neg THEN "SELL" ELSE "BUY",
     actual_size |-> actual_net.v,
     difference_side |-> IF difference_net.neg THEN "SELL" ELSE "BUY",
     difference_abs |-> difference_net.v,
     difference_percent |->
         DifferencePercent(difference_net.v, calc_net.v, actual_net.v)]

\* Line 340: difference_net = calc_net - actual_net
RowOfNets(symbol, listed, calc_net, actual_net) ==
    RowOf(symbol, listed, calc_net, actual_net, SignedSub(calc_net, actual_net))

\* Lines 326-331: a symbol is listed when it is a key of either dict.
RowOfSums(symbol, calc_buy, calc_sell, actual_buy, actual_sell) ==
    RowOfNets(symbol, ~calc_buy.absent \/ ~actual_buy.absent,
              Net(calc_buy.v, calc_sell.v), Net(actual_buy.v, actual_sell.v))

\* Lines 328-368: the row of a symbol.
SummaryRow(read, user, symbol) ==
    RowOfSums(symbol,
              CalculatedSum(read, Len(read), symbol, "BUY"),
              CalculatedSum(read, Len(read), symbol, "SELL"),
              ActualSum(user, Len(user), symbol, "BUY"),
              ActualSum(user, Len(user), symbol, "SELL"))

\* Lines 262-381: the rows of the symbols that are keys of either dict and
\* have a size or a difference, sorted by symbol.
get_trade_summary(traders, positions, user) ==
    LET read == PositionsRead(get_lead_traders(traders), positions)
        rows == [n \in DOMAIN SummaryOrder |->
                    SummaryRow(read, user, SummaryOrder[n])]
        emitted(row) ==
            /\ row.listed
            /\ \/ row.calculated_size.m # <<>>
               \/ row.actual_size.m # <<>>
               \/ row.difference_abs.m # <<>>
    IN  SelectSeq(rows, emitted)

\* The rows of lead_traders: reverse_coefficient is a whole number.
Trader(id, reverse_trading, reverse_coefficient, is_active) ==
    [id |-> id, portfolio_id |-> id, reverse_trading |-> reverse_trading,
     reverse_coefficient |-> reverse_coefficient, is_active |-> is_active]

TraderSettings ==
    {<<FALSE, 1, TRUE>>, <<TRUE, 2, TRUE>>, <<FALSE, 1, FALSE>>}

ActiveSettings == {<<FALSE, 1, TRUE>>, <<TRUE, 2, TRUE>>}

\* The positions of a lead trader: sizes are whole numbers.
LeadLists ==
    {<<>>,
     <<Position("BTCUSDT", "BUY", 1)>>,
     <<Position("BTCUSDT", "SELL", 3)>>,
     <<Position("ETHUSDT", "BUY", 1), Position("BTCUSDT", "BUY", 1)>>,
     <<Position("BTCUSDT", "LONG", 1)>>}

SecondLists == {<<>>, <<Position("BTCUSDT", "SELL", 1)>>}

\* The cached positions of the user, in symbol order: sizes in hundredths.
UserLists ==
    {<<>>,
     <<Position("BTCUSDT", "BUY", 3)>>,
     <<Position("BTCUSDT", "SELL", 1), Position("ETHUSDT", "BUY", 2)>>}

\* A database with two lead traders of the user.
Database(setting1, setting2, list1, list2, list3) ==
    [lead_traders |-> <<Trader(1, setting1[1], setting1[2], setting1[3]),
                        Trader(2, setting2[1], setting2[2], setting2[3])>>,
     lead_positions |->
         RowsFrom(1, 1, list1) \o RowsFrom(Len(list1) + 1, 2, list2),
     user_positions |-> list3]

Databases ==
    {Database(setting1, setting2, list1, list2, list3) :
        setting1 \in TraderSettings, setting2 \in ActiveSettings,
        list1 \in LeadLists, list2 \in SecondLists, list3 \in UserLists}

TradeSummary == get_trade_summary(lead_traders, lead_positions, user_positions)

\* GET /api/trade_summary/<user_id>
GetTradeSummary ==
    /\ summary' = <<TradeSummary>>
    /\ UNCHANGED <<lead_traders, user_positions>>
    /\ UNCHANGED <<wsVars, subVars, ctVars, restVars, dlVars, dbVars,
                 otherVars>>

InitSummary(db) ==
    /\ lead_traders = db.lead_traders
    /\ lead_positions = db.lead_positions
    /\ next_id = Len(db.lead_positions) + 1
    /\ db_last = [op |-> "init_database", lead_trader_id |-> 0,
                  positions |-> <<>>, result |-> "", updates |-> 0]
    /\ user_positions = db.user_positions
    /\ summary = <<>>

\* No trader, no position, no summary.
InitSummaryEmpty ==
    /\ lead_traders = <<>>
    /\ user_positions = <<>>
    /\ summary = <<>>

NextSummary == GetTradeSummary

(***************************************************************************)
(* Part VII: the lead traders of the analysis application                  *)
(*   examples/lead_trader_analysis/web/database.py, lines 157-228          *)
(*   examples/lead_trader_analysis/web/app.py, lines 90-150 and 418-478    *)
(* One user; a trader's nickname follows those of the traders added before *)
(* it, so that the nickname order of the table is its order of insertion.  *)
(***************************************************************************)

MaxTraderOps == 2

\* UNIQUE(user_id, portfolio_id), line 56: whether a row, active or not,
\* already holds the portfolio.
PortfolioTaken(traders, portfolio_id) ==
    \E n \in DOMAIN traders : traders[n].portfolio_id = portfolio_id

\* The row of the INSERT of lines 165-168: id is AUTOINCREMENT and no row
\* is ever deleted; is_active takes the default of line 52.
NewTrader(traders, portfolio_id, reverse_trading, reverse_coefficient) ==
    [id |-> Len(traders) + 1, portfolio_id |-> portfolio_id,
     reverse_trading |-> reverse_trading,
     reverse_coefficient |-> reverse_coefficient, is_active |-> TRUE]

\* The row is as it was.
StillActive(traders, trader_id) == traders

\* UPDATE lead_traders SET is_active = FALSE WHERE id = ?, lines 221-223
Deactivated(traders, trader_id) ==
    [n \in DOMAIN traders |->
        IF traders[n].id = trader_id
        THEN [traders[n] EXCEPT !.is_active = FALSE]
        ELSE traders[n]]

\* UPDATE lead_traders SET reverse_trading = ?, reverse_coefficient = ?
\* WHERE id = ?, lines 199-211
Updated(traders, trader_id, reverse_trading, reverse_coefficient) ==
    [n \in DOMAIN traders |->
        IF traders[n].id = trader_id
        THEN [traders[n] EXCEPT !.reverse_trading = reverse_trading,
                                !.reverse_coefficient = reverse_coefficient]
        ELSE traders[n]]

\* cursor.rowcount > 0, lines 213 and 227
RowCount(traders, trader_id) ==
    IF \E n \in DOMAIN traders : traders[n].id = trader_id
    THEN "True"
    ELSE "False"

\* add_lead_trader(user_id, portfolio_id, nickname, reverse_trading,
\* reverse_coefficient), lines 157-172, under
\* the route of app.py, lines 418-436: an IntegrityError is caught and
\* flashed, and the table is as before.
AddLeadTrader(portfolio_id, reverse_trading, reverse_coefficient) ==
    /\ db_last.updates < MaxTraderOps
    /\ IF PortfolioTaken(lead_traders, portfolio_id)
       THEN /\ UNCHANGED lead_traders
            /\ db_last' = [op |-> "add_lead_trader", lead_trader_id |-> 0,
                           portfolio_id |-> portfolio_id,
                           positions |-> <<>>, result |-> "raised",
                           updates |-> db_last.updates + 1]
       ELSE /\ lead_traders' =
                   Append(lead_traders,
                          NewTrader(lead_traders, portfolio_id,
                                    reverse_trading, reverse_coefficient))
            /\ db_last' = [op |-> "add_lead_trader",
                           lead_trader_id |-> Len(lead_traders) + 1,
                           portfolio_id |-> portfolio_id,
                           positions |-> <<>>, result |-> "True",
                           updates |-> db_last.updates + 1]
    /\ UNCHANGED <<lead_positions, next_id, user_positions, summary>>
    /\ UNCHANGED <<wsVars, subVars, ctVars, restVars, dlVars,
                 otherVars>>

\* remove_lead_trader(trader_id), lines 216-228
RemoveLeadTrader(trader_id) ==
    /\ db_last.updates < MaxTraderOps
    /\ lead_traders' = Deactivated(lead_traders, trader_id)
    /\ db_last' = [op |-> "remove_lead_trader", lead_trader_id |-> trader_id,
                   positions |-> <<>>,
                   result |-> RowCount(lead_traders, trader_id),
                   updates |-> db_last.updates + 1]
    /\ UNCHANGED <<lead_positions, next_id, user_positions, summary>>
    /\ UNCHANGED <<wsVars, subVars, ctVars, restVars, dlVars,
                 otherVars>>

\* update_lead_trader(trader_id, reverse_trading, reverse_coefficient),
\* lines 192-214
UpdateLeadTrader(trader_id, reverse_trading, reverse_coefficient) ==
    /\ db_last.updates < MaxTraderOps
    /\ lead_traders' = Updated(lead_traders, trader_id, reverse_trading,
                               reverse_coefficient)
    /\ db_last' = [op |-> "update_lead_trader", lead_trader_id |-> trader_id,
                   positions |-> <<>>,
                   result |-> RowCount(lead_traders, trader_id),
                   updates |-> db_last.updates + 1]
    /\ UNCHANGED <<lead_positions, next_id, user_positions, summary>>
    /\ UNCHANGED <<wsVars, subVars, ctVars, restVars, dlVars,
                 otherVars>>

\* The traders of get_lead_traders_overview, app.py lines 99-146: each
\* trader of get_lead_traders with the number of its positions.
Overview(traders, positions) ==
    LET shown == get_lead_traders(traders)
    IN  [n \in DOMAIN shown |->
            [id |-> shown[n].id,
             total_positions |->
                 Len(get_lead_positions(positions, shown[n].id))]]

\* GET /api/lead_traders_overview/<user_id>
GetLeadTradersOverview ==
    /\ db_last' = [op |-> "get_lead_traders_overview", lead_trader_id |-> 0,
                   positions |-> <<>>,
                   result |-> Overview(lead_traders, lead_positions),
                   updates |-> db_last.updates]
    /\ UNCHANGED <<lead_positions, next_id, lead_traders, user_positions,
                   summary>>
    /\ UNCHANGED <<wsVars, subVars, ctVars, restVars, dlVars,
                 otherVars>>

\* Two traders with positions, the first one mirrored in reverse, and a
\* user who holds one position.
TraderDatabase ==
    Database(<<TRUE, 2, TRUE>>, <<FALSE, 1, TRUE>>,
             <<Position("ETHUSDT", "BUY", 1), Position("BTCUSDT", "BUY", 1)>>,
             <<Position("BTCUSDT", "SELL", 1)>>,
             <<Position("BTCUSDT", "BUY", 3)>>)

\* The portfolio of the first trader and a new one.
AddedPortfolios == {1, 3}

NextTraders ==
    \/ \E portfolio_id \in AddedPortfolios :
          AddLeadTrader(portfolio_id, FALSE, 1)
    \/ \E trader_id \in LeadTraders : RemoveLeadTrader(trader_id)
    \/ UpdateLeadTrader(1, FALSE, 1)
    \/ /\ db_last.updates < MaxTraderOps
       /\ UpdateLeadPositions(1, <<Position("BTCUSDT", "BUY", 2)>>)
    \/ GetLeadTradersOverview
    \/ GetTradeSummary

(***************************************************************************)
(* Part VIII: the user positions of the analysis application               *)
(*   examples/lead_trader_analysis/web/app.py, lines 33-88                 *)
(*   src/exchanges/binance/binance_futures_interface.py, lines 345-366     *)
(*   examples/lead_trader_analysis/web/database.py, lines 271-291          *)
(* Amounts are whole numbers of hundredths.                                *)
(***************************************************************************)

\* One entry of futures_position_information()
Held(symbol, positionAmt) == [symbol |-> symbol, positionAmt |-> positionAmt]

HeldSymbols == {"BTCUSDT", "ETHUSDT"}

HeldAmounts == {-1, 0, 3}

HeldEntries ==
    {Held(symbol, positionAmt) :
        symbol \in HeldSymbols, positionAmt \in HeldAmounts}

\* What the exchange answers: nothing, one entry or two.
Answers ==
    {<<>>} \cup {<<first>> : first \in HeldEntries}
           \cup {<<first, second>> : first, second \in HeldEntries}

\* What futures_position_information() does: it returns the answer of the
\* exchange, or raises.
Fetches ==
    {[raised |-> FALSE, positions |-> answer] : answer \in Answers}
        \cup {[raised |-> TRUE, positions |-> <<>>]}

\* get_all_positions(), interface lines 345-366: the entries with a non-zero
\* amount, and the empty list when the request raises.
get_all_positions(fetch) ==
    LET open(pos) == pos.positionAmt # 0
        shown(pos) ==
            [symbol |-> pos.symbol, amount |-> pos.positionAmt,
             side |-> IF pos.positionAmt > 0 THEN "LONG" ELSE "SHORT"]
        open_positions == SelectSeq(fetch.positions, open)
    IN  IF fetch.raised
        THEN <<>>
        ELSE [n \in DOMAIN open_positions |-> shown(open_positions[n])]

\* app.py lines 62-79: the positions in the format of the application
Converted(binance_positions) ==
    [n \in DOMAIN binance_positions |->
        Position(binance_positions[n].symbol,
                 IF binance_positions[n].side = "LONG" THEN "BUY"
                 ELSE IF binance_positions[n].side = "SHORT" THEN "SELL"
                 ELSE binance_positions[n].side,
                 Abs(binance_positions[n].amount))]

\* The rows of user_positions of the user as get_user_positions reads them,
\* ORDER BY symbol (database.py line 300), after the DELETE and the INSERTs
\* of update_user_positions.
Cached(positions) ==
    LET order == Sorted({positions[n].symbol : n \in DOMAIN positions})
    IN  [k \in DOMAIN order |->
            positions[CHOOSE n \in DOMAIN positions :
                          positions[n].symbol = order[k]]]

\* GET /api/user_positions/<user_id>, app.py lines 33-88, for a user with
\* credentials.  UNIQUE(user_id, symbol), database.py line 91: an INSERT of
\* a second row for a symbol raises before the commit, the DELETE is not
\* committed and the handler of line 87 answers.
GetUserPositions(fetch) ==
    LET binance_positions == get_all_positions(fetch)
        positions == Converted(binance_positions)
    IN  /\ IF UniqueSymbols(positions)
           THEN /\ user_positions' = Cached(positions)
                /\ db_last' = [op |-> "get_user_positions",
                               lead_trader_id |-> 0,
                               positions |-> fetch.positions,
                               raised |-> fetch.raised,
                               result |-> [success |-> TRUE,
                                           positions |-> positions],
                               updates |-> db_last.updates]
           ELSE /\ UNCHANGED user_positions
                /\ db_last' = [op |-> "get_user_positions",
                               lead_trader_id |-> 0,
                               positions |-> fetch.positions,
                               raised |-> fetch.raised,
                               result |-> [success |-> FALSE,
                                           positions |-> <<>>],
                               updates |-> db_last.updates]
        /\ UNCHANGED <<lead_positions, next_id, lead_traders, summary>>
        /\ UNCHANGED <<wsVars, subVars, ctVars, restVars, dlVars,
                 otherVars>>

NextPositions == \E fetch \in Fetches : GetUserPositions(fetch)

(***************************************************************************)
(* Part IX: the filters of Stage 3 of the liquidation analysis             *)
(*   examples/liquidation_analysing/003_analyze_liquidations.py, 84-222    *)
(* A float is <<>> when it is NaN and <<x>> otherwise; a bound is <<>>     *)
(* when it is None and <<x>> otherwise.  Comparisons keep only the order   *)
(* of the values, so whole numbers stand for them.                         *)
(***************************************************************************)

MaxRows == 2

NaN == <<>>

None == <<>>

\* series >= bound, element by element: False for NaN
AtMost(value, bound) == value # NaN /\ value[1] <= bound[1]

AtLeast(value, bound) == value # NaN /\ value[1] >= bound[1]

\* A liquidation with its indicators (lines 106-176): a row without candle
\* data has has_data False and NaN indicators.
Liquidation(usd_amount, avg_price, has_data, volume_ratio, candle_ratio, volatility) ==
    [usd_amount |-> usd_amount, avg_price |-> avg_price,
     has_data |-> has_data, volume_ratio |-> volume_ratio,
     candle_ratio |-> candle_ratio, volatility |-> volatility]

Liquidations ==
    {Liquidation(<<1>>, <<1>>, FALSE, NaN, NaN, NaN),
     Liquidation(<<3>>, <<3>>, FALSE, NaN, NaN, NaN),
     Liquidation(<<3>>, <<1>>, TRUE, <<1>>, <<2>>, <<2>>),
     Liquidation(<<1>>, <<3>>, TRUE, <<3>>, <<2>>, NaN),
     Liquidation(<<2>>, <<2>>, TRUE, NaN, NaN, <<3>>),
     Liquidation(<<2>>, <<3>>, TRUE, <<2>>, <<3>>, <<1>>)}

\* The frames: each row with its index label.
DataFrames ==
    UNION {[1..n -> Liquidations] : n \in 0..MaxRows}

Bounds == {None, <<2>>, <<3>>}

\* df[df[column] >= bound] when the bound is configured
KeepAtLeast(rows, column, bound) ==
    IF bound = None
    THEN rows
    ELSE {n \in rows : AtLeast(df[n][column], bound)}

\* df[df[column] <= bound] when the bound is configured
KeepAtMost(rows, column, bound) ==
    IF bound = None
    THEN rows
    ELSE {n \in rows : AtMost(df[n][column], bound)}

\* apply_initial_filters(liquidations_df), lines 84-100: the index labels of
\* the rows returned; the print of line 99 divides by the number of rows
\* given and raises ZeroDivisionError when there is none.
apply_initial_filters(MIN_USDT_VALUE_INITIAL, MIN_PRICE_INITIAL) ==
    IF Len(df) = 0
    THEN [raised |-> TRUE, rows |-> {}]
    ELSE [raised |-> FALSE,
          rows |-> KeepAtLeast(KeepAtLeast(DOMAIN df, "usd_amount",
                                           MIN_USDT_VALUE_INITIAL),
                               "avg_price", MIN_PRICE_INITIAL)]

\* The configuration of lines 16-21
AdvancedBounds ==
    [MIN_VOLUME_RATIO : Bounds, MAX_VOLUME_RATIO : Bounds,
     MIN_CANDLE_RATIO : Bounds, MAX_CANDLE_RATIO : Bounds,
     MIN_VOLATILITY : Bounds, MAX_VOLATILITY : Bounds]

\* df[df['has_data'] == True], line 191
WithData(rows) == {n \in rows : df[n].has_data}

VolumeRatio(rows, bounds) ==
    KeepAtMost(KeepAtLeast(rows, "volume_ratio", bounds.MIN_VOLUME_RATIO),
               "volume_ratio", bounds.MAX_VOLUME_RATIO)

CandleRatio(rows, bounds) ==
    KeepAtMost(KeepAtLeast(rows, "candle_ratio", bounds.MIN_CANDLE_RATIO),
               "candle_ratio", bounds.MAX_CANDLE_RATIO)

Volatility(rows, bounds) ==
    KeepAtMost(KeepAtLeast(rows, "volatility", bounds.MIN_VOLATILITY),
               "volatility", bounds.MAX_VOLATILITY)

\* apply_advanced_filters(df), lines 185-222: the print of line 192 divides
\* by the number of rows given.
apply_advanced_filters(bounds) ==
    IF Len(df) = 0
    THEN [raised |-> TRUE, rows |-> {}]
    ELSE [raised |-> FALSE,
          rows |-> Volatility(CandleRatio(VolumeRatio(WithData(DOMAIN df),
                                                      bounds),
                                          bounds),
                              bounds)]

\* One call on the frame that was loaded.
ApplyInitialFilters(MIN_USDT_VALUE_INITIAL, MIN_PRICE_INITIAL) ==
    /\ filter_last.op = "load_liquidations"
    /\ filter_last' =
           [op |-> "apply_initial_filters",
            bounds |-> [MIN_USDT_VALUE_INITIAL |-> MIN_USDT_VALUE_INITIAL,
                        MIN_PRICE_INITIAL |-> MIN_PRICE_INITIAL],
            result |-> apply_initial_filters(MIN_USDT_VALUE_INITIAL,
                                             MIN_PRICE_INITIAL)]
    /\ UNCHANGED df
    /\ UNCHANGED <<wsVars, subVars, ctVars, restVars, dlVars, dbVars, sumVars,
                   logVars, klVars>>

ApplyAdvancedFilters(bounds) ==
    /\ filter_last.op = "load_liquidations"
    /\ filter_last' = [op |-> "apply_advanced_filters", bounds |-> bounds,
                       result |-> apply_advanced_filters(bounds)]
    /\ UNCHANGED df
    /\ UNCHANGED <<wsVars, subVars, ctVars, restVars, dlVars, dbVars, sumVars,
                   logVars, klVars>>

InitAnalysis(frame) ==
    /\ df = frame
    /\ filter_last = [op |-> "load_liquidations", bounds |-> <<>>,
                      result |-> [raised |-> FALSE, rows |-> DOMAIN frame]]

NextAnalysis ==
    \/ \E MIN_USDT_VALUE_INITIAL \in Bounds, MIN_PRICE_INITIAL \in Bounds :
          ApplyInitialFilters(MIN_USDT_VALUE_INITIAL, MIN_PRICE_INITIAL)
    \/ \E bounds \in AdvancedBounds : ApplyAdvancedFilters(bounds)

(***************************************************************************)
(* Part X: the log file handler                                            *)
(*   src/utils/logger.py, lines 11-65                                      *)
(* A day is a day number and stands for its 'YYYY-MM-DD' text.  A file     *)
(* name is the list of the parts of its stem between '_' and its suffix; a *)
(* part is a text or the text of a day.                                    *)
(***************************************************************************)

MaxDay == 4

StartDay == 2

Text(text) == [kind |-> "text", text |-> text, day |-> 0]

DateText(day) == [kind |-> "date", text |-> "", day |-> day]

FileName(parts, suffix) == [parts |-> parts, suffix |-> suffix]

\* log_dir / f"{base_name}_{date}.log", lines 21 and 40
LogName(base_name, day) ==
    FileName(<<Text(base_name), DateText(day)>>, "log")

\* The files another program or the user may have left in the directory.
StrayFiles ==
    {LogName("app", 0), LogName("app", 1),
     FileName(<<Text("app"), Text("old"), DateText(0)>>, "log"),
     FileName(<<Text("app"), Text("latest")>>, "log"),
     FileName(<<Text("app"), DateText(0)>>, "txt"),
     LogName("other", 0)}

\* log_dir.glob(f"{base_name}_*.log"), line 53
Globbed(files, base_name) ==
    {file \in files : /\ file.suffix = "log"
                      /\ Len(file.parts) >= 2
                      /\ file.parts[1] = Text(base_name)}

\* Lines 56-57: the last part of the stem parses as a date
Parses(file) == file.parts[Len(file.parts)].kind = "date"

\* (datetime.now() - file_date).days, line 60: now is within today and
\* file_date is the midnight that begins its day.
days_old(file, now) == now - file.parts[Len(file.parts)].day

\* _cleanup_old_logs(), lines 48-65: the files it unlinks
Unlinked(files, base_name, keep, now) ==
    IF keep <= 0
    THEN {}
    ELSE {file \in Globbed(files, base_name) :
              Parses(file) /\ days_old(file, now) > keep}

\* _open() of the new baseFilename, line 43: the file exists afterwards
Opened(files, name) == files \cup {name}

\* doRollover(), lines 31-46, called by emit() once the time of the first
\* midnight after construction has passed (rolloverAt is never moved).
DoRollover ==
    /\ baseFilename # <<>>
    /\ today > StartDay
    /\ baseFilename' = <<LogName("app", today)>>
    /\ stream' = "open"
    /\ log_files' = Opened(log_files, LogName("app", today))
                        \ Unlinked(Opened(log_files, LogName("app", today)),
                                   "app", backupCount, today)
    /\ log_last' = [op |-> "doRollover", files |-> log_files,
                    closed |-> baseFilename]
    /\ UNCHANGED <<today, backupCount>>
    /\ UNCHANGED <<wsVars, subVars, ctVars, restVars, dlVars, dbVars, sumVars,
                   anVars, klVars>>

\* Midnight passes.
Midnight ==
    /\ baseFilename # <<>>
    /\ today < MaxDay
    /\ today' = today + 1
    /\ log_last' = [op |-> "midnight", files |-> log_files,
                    closed |-> <<>>]
    /\ UNCHANGED <<log_files, baseFilename, stream, backupCount>>
    /\ UNCHANGED <<wsVars, subVars, ctVars, restVars, dlVars, dbVars, sumVars,
                   anVars, klVars>>

\* No handler.
InitNoLogger ==
    /\ log_files = {}
    /\ baseFilename = <<>>
    /\ stream = "None"
    /\ today = StartDay
    /\ backupCount = 0
    /\ log_last = [op |-> "", files |-> {}, closed |-> <<>>]

\* MidnightRotatingFileHandler(log_dir, 'app', backupCount=keep_days), lines
\* 14-29, in a directory that holds the given files: the file of today is
\* opened.
InitLogger(files, keep_days) ==
    /\ log_files = Opened(files, LogName("app", StartDay))
    /\ baseFilename = <<LogName("app", StartDay)>>
    /\ stream = "open"
    /\ today = StartDay
    /\ backupCount = keep_days
    /\ log_last = [op |-> "__init__", files |-> files, closed |-> <<>>]

KeepDays == {0, 1, 2}

NextLogger == DoRollover \/ Midnight

(***************************************************************************)
(* Part XI: the candles of a time range                                    *)
(*   src/exchanges/binance/binance_futures_interface.py, lines 143-224     *)
(* Times are in milliseconds.  A candle is the list the exchange sends,    *)
(* cut after its first element, the open time.                             *)
(***************************************************************************)

\* The most candles of a page: 1500 in the program (line 159).
limit == 2

\* The latest time of a call, in minutes.
MaxEnd == 2

Times == {60000 * minute : minute \in 0..MaxEnd}

Intervals == {"1m", "3m", "2m"}

\* Lines 181-197: '2m' is not in the table.
interval_ms(interval) ==
    CASE interval = "1m" -> 60000
      [] interval = "3m" -> 180000
      [] interval = "5m" -> 300000
      [] interval = "15m" -> 900000
      [] interval = "30m" -> 1800000
      [] interval = "1h" -> 3600000
      [] interval = "2h" -> 7200000
      [] interval = "4h" -> 14400000
      [] interval = "6h" -> 21600000
      [] interval = "8h" -> 28800000
      [] interval = "12h" -> 43200000
      [] interval = "1d" -> 86400000
      [] interval = "3d" -> 259200000
      [] interval = "1w" -> 604800000
      [] interval = "1M" -> 2592000 * 1000
      [] OTHER -> 60000

\* The pages the exchange may answer to a request for [startTime, endTime]:
\* at most limit candles of the window, in any order.
Pages(startTime, endTime) ==
    LET window == {time \in Times : startTime <= time /\ time <= endTime}
    IN  UNION {[1..n -> {<<time>> : time \in window}] : n \in 0..limit}

\* The window start stays where it is.
SameStart(klines, interval) == current_start

\* Lines 177-199: the start of the next window
NextStart(klines, interval) ==
    klines[Len(klines)][1] + interval_ms(interval)

\* Lines 209-220: the candles in the format of the interface
Klines(klines) ==
    [n \in DOMAIN klines |-> [timestamp |-> klines[n][1]]]

\* get_historical_klines(symbol, interval, start_time, end_time) is called:
\* lines 157-161, up to the first test of the loop.
CallKlines(interval, start_time, end_time) ==
    /\ kl_pc = "idle"
    /\ kl_args' = [interval |-> interval, start_time |-> start_time,
                   end_time |-> end_time]
    /\ current_start' = start_time
    /\ all_klines' = <<>>
    /\ pages' = <<>>
    /\ kl_pc' = IF start_time < end_time THEN "while" ELSE "convert"
    /\ UNCHANGED kl_result
    /\ UNCHANGED <<wsVars, subVars, ctVars, restVars, dlVars, dbVars, sumVars,
                   anVars, logVars>>

\* One iteration of the loop, lines 163-206, with the page the exchange
\* answers, and the test of line 161 that follows it.
FetchPage(klines) ==
    /\ kl_pc = "while"
    /\ pages' = Append(pages, klines)
    /\ IF klines = <<>>
       THEN /\ kl_pc' = "convert"
            /\ UNCHANGED <<all_klines, current_start>>
       ELSE /\ all_klines' = all_klines \o klines
            /\ current_start' = NextStart(klines, kl_args.interval)
            /\ kl_pc' = IF Len(klines) < limit THEN "convert"
                        ELSE IF NextStart(klines, kl_args.interval)
                                    < kl_args.end_time
                        THEN "while"
                        ELSE "convert"
    /\ UNCHANGED <<kl_args, kl_result>>
    /\ UNCHANGED <<wsVars, subVars, ctVars, restVars, dlVars, dbVars, sumVars,
                   anVars, logVars>>

\* Lines 208-221: the list is returned.
ReturnKlines ==
    /\ kl_pc = "convert"
    /\ kl_result' = <<Klines(all_klines)>>
    /\ kl_pc' = "done"
    /\ UNCHANGED <<kl_args, current_start, all_klines, pages>>
    /\ UNCHANGED <<wsVars, subVars, ctVars, restVars, dlVars, dbVars, sumVars,
                   anVars, logVars>>

InitKlines ==
    /\ kl_pc = "idle"
    /\ kl_args = [interval |-> "", start_time |-> 0, end_time |-> 0]
    /\ current_start = 0
    /\ all_klines = <<>>
    /\ pages = <<>>
    /\ kl_result = <<>>

NextKlines ==
    \/ \E interval \in Intervals, start_time \in Times, end_time \in Times :
          CallKlines(interval, start_time, end_time)
    \/ \E klines \in Pages(current_start, kl_args.end_time) :
          FetchPage(klines)
    \/ ReturnKlines

\* The utilities and Stage 3 before they are used.
InitOther == InitAnalysis(<<>>) /\ InitNoLogger /\ InitKlines

(***************************************************************************)
(* Specifications                                                          *)
(***************************************************************************)

vars == <<wsVars, subVars, ctVars, restVars, toolVars>>

\* The example tools before they are run.
InitTools == InitDownload(<<>>) /\ InitDb /\ InitSummaryEmpty /\ InitOther

\* A client on its own: a strategy is constructed and not run.
InitClient ==
    /\ InitWS
    /\ InitCopy(CHOOSE yaml \in YamlChoices : TRUE)
    /\ InitRest
    /\ InitTools

SpecWS == InitClient /\ [][NextWS]_vars
\* What the event loop and the websockets library guarantee: a sleep ends, a
\* connection attempt completes or raises (open_timeout), a closed socket ends
\* the iteration over it, close() returns (close_timeout=10).  Nothing makes
\* the exchange send a frame or close a connection.
FairnessWS ==
    \A t \in Tasks :
        /\ WF_vars(SleepDone(t))
        /\ WF_vars(ConnectOk(t) \/ ConnectFail(t))
        /\ WF_vars(ObserveClosed(t))
        /\ WF_vars(StopReturn(t))
        /\ WF_vars(SudRestart(t))

SpecWSFair == SpecWS /\ FairnessWS

\* The strategy on its own, beside a client that is never started.
InitStrategy ==
    /\ InitWS
    /\ max_reconnect_attempts = 0
    /\ \E yaml \in YamlChoices : InitCopy(yaml)
    /\ InitRest
    /\ InitTools

SpecCopy == InitStrategy /\ [][NextCopy]_vars

\* A client configured to give up after one failed reconnect attempt, with
\* its subscriptions and frames.
InitStreams == InitClient /\ max_reconnect_attempts = 1
SpecStreams == InitStreams /\ [][NextStreams]_vars
SpecFrames == InitStreams /\ [][NextFrames]_vars

\* One REST interface and the calls made on it, beside a client that is never
\* started.
InitInterface == InitClient /\ max_reconnect_attempts = 0
SpecRest == InitInterface /\ [][NextRest]_vars

\* The tools on their own, beside a client and an interface never used.
InitQuiet ==
    /\ InitWS
    /\ max_reconnect_attempts = 0
    /\ InitCopy(CHOOSE yaml \in YamlChoices : TRUE)
    /\ InitRest

InitDownloadRuns ==
    /\ InitQuiet
    /\ InitOther
    /\ InitDb
    /\ InitSummaryEmpty
    /\ \E symbols \in Summaries : InitDownload(symbols)

SpecDownload == InitDownloadRuns /\ [][NextDownload]_vars

SpecDb == InitInterface /\ [][NextDb]_vars

InitSummaries ==
    /\ InitQuiet
    /\ InitOther
    /\ InitDownload(<<>>)
    /\ \E db \in Databases : InitSummary(db)

SpecSummary == InitSummaries /\ [][NextSummary]_vars

InitTraders ==
    /\ InitQuiet
    /\ InitOther
    /\ InitDownload(<<>>)
    /\ InitSummary(TraderDatabase)

SpecTraders == InitTraders /\ [][NextTraders]_vars

\* The application with the positions of the user cached by an earlier
\* request.
InitPositions ==
    /\ InitQuiet
    /\ InitOther
    /\ InitDownload(<<>>)
    /\ InitDb
    /\ lead_traders = <<>>
    /\ user_positions \in UserLists
    /\ summary = <<>>

SpecPositions == InitPositions /\ [][NextPositions]_vars

\* Stage 3 given a frame.
InitFrames ==
    /\ InitQuiet
    /\ InitDownload(<<>>)
    /\ InitDb
    /\ InitSummaryEmpty
    /\ InitNoLogger
    /\ InitKlines
    /\ \E frame \in DataFrames : InitAnalysis(frame)

SpecAnalysis == InitFrames /\ [][NextAnalysis]_vars

\* A handler constructed in a directory that holds some files.
InitHandler ==
    /\ InitQuiet
    /\ InitDownload(<<>>)
    /\ InitDb
    /\ InitSummaryEmpty
    /\ InitAnalysis(<<>>)
    /\ InitKlines
    /\ \E files \in SUBSET StrayFiles, keep_days \in KeepDays :
          InitLogger(files, keep_days)

SpecLogger == InitHandler /\ [][NextLogger]_vars

\* The interface before a call of get_historical_klines.
InitRange == InitInterface

SpecKlines == InitRange /\ [][NextKlines]_vars

\* The call runs on: the exchange answers each request and the function
\* returns.
FairnessKlines ==
    /\ WF_vars(\E klines \in Pages(current_start, kl_args.end_time) :
                  FetchPage(klines))
    /\ WF_vars(ReturnKlines)

SpecKlinesFair == SpecKlines /\ FairnessKlines

(***************************************************************************)
(* Claims about the WebSocket client                                       *)
(***************************************************************************)

\* Task t begins a connection attempt in this step (websockets.connect is
\* called).
AttemptBegins(t) ==
    pc'[t] \in {"connecting", "rconnecting"} /\ pc'[t] # pc[t]

\* C4: while the client is not stopped, a connection attempt that follows a
\* disconnect or a failed attempt begins only out of a backoff wait; the only
\* attempts without one are the first of a start().
C4_BackoffBeforeEveryRetry ==
    [][\A t \in Tasks :
          (AttemptBegins(t) /\ running')
              => pc[t] \in {"idle", "sud_closing", "sleeping"}]_vars

\* C5: once stop() has been called (and start() not called again) the client
\* begins no connection attempt and opens no socket.
C5_NoConnectionAfterStop ==
    [][(stopRequested /\ stopRequested')
          => /\ nSocks' = nSocks
             /\ \A t \in Tasks : ~AttemptBegins(t)]_vars

\* C6: after stop() is called while a start() is running, that start()
\* returns without any help from the exchange; and a start() in its cycle
\* returns only when the running flag is down.
C6_StartReturnsAfterStop ==
    /\ \A t \in Tasks :
          (stopRequested /\ InLoop(t)) ~> (~InLoop(t) \/ ~stopRequested)
    /\ [][\A t \in Tasks : (InLoop(t) /\ ~InLoop(t)') => ~running']_vars

\* C7: at most one start() cycle is active and at most one socket is open.
C7_OneLoopOneSocket ==
    /\ Cardinality({t \in Tasks : InLoop(t)}) <= 1
    /\ Cardinality(openSocks) <= 1

\* C8: on_close has been called for every connection attempt that ended, by
\* the time the wait for the next attempt begins, the next attempt begins or
\* start() returns.
C8_CloseAfterEveryAttempt ==
    \A t \in Tasks :
        pc[t] \in {"sleeping", "connecting", "rconnecting", "idle"}
            => ~unclosed[t]

\* The waits the specification lists for attempts 1..9; 300 from there on.
ExpectedWaits == <<5, 10, 20, 40, 80, 160, 300, 300, 300>>
ExpectedWait(k) == IF k <= Len(ExpectedWaits) THEN ExpectedWaits[k] ELSE 300

\* C9: the wait that begins the k-th consecutive reconnect attempt since the
\* last successful connect is 5, 10, 20, 40, 80, 160 for k = 1..6 and 300
\* from k = 7 on; it never exceeds 300 and is never shorter than the wait of
\* attempt k - 1.
C9_BackoffSchedule ==
    [][\A t \in Tasks :
          (pc'[t] = "sleeping" /\ pc[t] # "sleeping")
              => /\ consecAttempts' >= 1
                 /\ backoff'[t] = ExpectedWait(consecAttempts')
                 /\ backoff'[t] <= 300
                 /\ consecAttempts' > 1 =>
                        backoff'[t] >= ExpectedWait(consecAttempts' - 1)]_vars

\* A ninth reconnect attempt in a row, after an earlier successful connect,
\* waits 300 s.
C9_Witness ==
    \E t \in Tasks :
        /\ pc[t] = "sleeping"
        /\ consecAttempts = 9
        /\ backoff[t] = 300
        /\ nSocks >= 1

\* A reconnect attempt of task t fails in this step.
ReconnectFails(t) ==
    pc[t] = "rconnecting" /\ pc'[t] \in {"sleeping", "idle"}

\* C10: with max_reconnect_attempts = N the client makes at most N reconnect
\* attempts after a successful connect; while fewer were made a failed
\* attempt is retried, and when the N-th fails the running flag is cleared
\* and start() returns; once the client has given up (the flag is down and
\* nobody called stop()) it begins no connection attempt and opens no socket
\* until start() is called again.  With the bound unset a failed attempt of a
\* running client is always retried and only stop() clears the flag.
C10_MaxAttempts ==
    [][/\ max_reconnect_attempts # 0 => consecAttempts' <= max_reconnect_attempts
       /\ \A t \in Tasks :
             /\ (ReconnectFails(t) /\ running
                    /\ (max_reconnect_attempts = 0
                          \/ consecAttempts < max_reconnect_attempts))
                   => (pc'[t] = "sleeping" /\ running')
             /\ (ReconnectFails(t) /\ max_reconnect_attempts # 0
                    /\ consecAttempts = max_reconnect_attempts)
                   => (~running' /\ pc'[t] = "idle")
       /\ (max_reconnect_attempts # 0 /\ ~running /\ ~stopRequested /\ ~running')
             => /\ nSocks' = nSocks
                /\ \A t \in Tasks : ~AttemptBegins(t)
       /\ (max_reconnect_attempts = 0 /\ running /\ ~running')
             => stopRequested']_vars

(***************************************************************************)
(* Claims about the copy-trading strategy                                  *)
(***************************************************************************)

\* C1: the handler of a source, given an ORDER_TRADE_UPDATE whose status is
\* FILLED and whose filled quantity is positive, appends one execution record
\* to that source's history and schedules one mirror operation for it; given
\* any other frame it appends and schedules nothing.
C1_FilledSchedulesOneMirror ==
    [][\A name \in Sources, m \in Messages :
          OnMessage(name, m) =>
              IF /\ "e" \in DOMAIN m
                 /\ m.e = "ORDER_TRADE_UPDATE"
                 /\ m.X = "FILLED"
                 /\ m.z > 0
              THEN LET record == [symbol |-> m.s, side |-> m.S,
                                  quantity |-> m.z] IN
                   /\ executed_orders' =
                          [executed_orders EXCEPT
                              ![name] = executed_orders[name] \o <<record>>]
                   /\ copyTasks' =
                          copyTasks \o <<[source_name |-> name,
                                          execution |-> record]>>
              ELSE /\ executed_orders' = executed_orders
                   /\ copyTasks' = copyTasks]_vars

\* Two frames were dispatched, one of them a fill: one record, one mirror
\* operation scheduled.
C1_Witness ==
    /\ handled = 2
    /\ Len(copyTasks) = 1
    /\ \E name \in Sources :
          /\ Len(executed_orders[name]) = 1
          /\ \A other \in Sources \ {name} : executed_orders[other] = <<>>

C3_ListenersIndependent ==
    /\ [](runState = "returned" =>
             \A name \in Sources : listener[name] = "exited")
    /\ [](runState = "gathering" =>
             /\ \A name \in Sources :
                   (listener[name] \in {"messages", "rmessages"}
                        /\ handled < MaxMessages)
                       => ENABLED (\E m \in Messages : OnMessage(name, m))
             /\ copyTasks # <<>>
                   => ENABLED (\E r, o \in BOOLEAN : CopyTrade(r, o)))
    /\ [][/\ runState = "gathering" =>
               \A a, b \in Sources :
                   (listener'[a] # listener[a] /\ listener'[b] # listener[b])
                       => a = b
          /\ \A name \in Sources :
                listener[name] \notin {"none", "init", "exited"}
                    => listener'[name] # "exited"
          /\ Len(mainOrders') # Len(mainOrders) => listener' = listener]_vars

\* One source got no listen key; the other reconnected after a disconnect,
\* had a mirror order refused and a later one accepted.
C3_Witness ==
    /\ runState = "gathering"
    /\ \E a, b \in Sources :
          /\ listener[a] = "exited"
          /\ listener[b] = "rmessages"
          /\ executed_orders[a] = <<>>
    /\ Len(mainOrders) = 2
    /\ mainOrders[1].result = "None"
    /\ mainOrders[2].result = "order"

(***************************************************************************)
(* Claims about subscriptions, connection URLs and frame dispatch          *)
(***************************************************************************)

\* C11: the subscription list never holds a stream twice; subscribe(l) makes
\* its set of streams the old set plus those of l, unsubscribe(l) the old set
\* minus those of l (so unsubscribing streams that are absent changes
\* nothing), and no other operation changes the list.
C11_SubscriptionList ==
    /\ [](Cardinality(ToSet(subscribed_streams)) = Len(subscribed_streams))
    /\ [][/\ \A l \in StreamLists :
                /\ Subscribe(l) =>
                      ToSet(subscribed_streams') =
                          ToSet(subscribed_streams) \cup ToSet(l)
                /\ Unsubscribe(l) =>
                      /\ ToSet(subscribed_streams') =
                             ToSet(subscribed_streams) \ ToSet(l)
                      /\ ToSet(l) \cap ToSet(subscribed_streams) = {}
                             => subscribed_streams' = subscribed_streams
          /\ subscribed_streams' # subscribed_streams
                => \E l \in StreamLists : Subscribe(l) \/ Unsubscribe(l)]_vars

\* Both streams are subscribed, once each, while a session is open.
C11_Witness ==
    /\ Len(subscribed_streams) = 2
    /\ ToSet(subscribed_streams) = StreamNames
    /\ \E t \in Tasks : pc[t] = "messages"

\* The received frames that are JSON and no subscription acknowledgment.
RECURSIVE Deliverable(_)
Deliverable(frames) ==
    IF frames = <<>> THEN <<>>
    ELSE LET f == Head(frames)
             ack == "result" \in DOMAIN f.data /\ f.data.result = "null"
         IN (IF f.json /\ ~ack THEN <<f.data>> ELSE <<>>)
                \o Deliverable(Tail(frames))

\* C12 as stated: on every connection the frames passed to on_message are
\* the received frames, in order, without the unparsable ones and the
\* acknowledgments.
C12_DispatchEqualsReceived ==
    \A id \in 1..MaxSockets : dispatched[id] = Deliverable(received[id])

\* What holds of the dispatch: a frame received while the running flag is
\* up is passed to on_message, after the frames before it, unless it is
\* unparsable or an
\* acknowledgment; whatever the frame (unparsable, or one on which
\* on_message raises, which calls on_error) the connection stays open and
\* the loop takes the next frame.  A frame received while the flag is down
\* is not dispatched and ends the message loop.
C12_DispatchWhileRunning ==
    [][\A t \in Tasks :
          LET id == sock[t] IN
          (pc[t] \in {"messages", "rmessages"} /\ id # 0
              /\ Len(received'[id]) = Len(received[id]) + 1)
          => LET f == received'[id][Len(received'[id])] IN
             IF running
             THEN /\ dispatched'[id] =
                        dispatched[id] \o Deliverable(<<f>>)
                  /\ errors'[id] =
                        errors[id] \o (IF Deliverable(<<f>>) = <<[e |-> "boom"]>>
                                       THEN <<f>> ELSE <<>>)
                  /\ pc'[t] = pc[t]
                  /\ sock'[t] = id
                  /\ openSocks' = openSocks
                  /\ running'
             ELSE /\ dispatched' = dispatched
                  /\ errors' = errors
                  /\ pc'[t] \notin {"messages", "rmessages"}]_vars

\* On one connection on_message raised on the first frame and the second
\* frame was dispatched all the same.
C12_Witness ==
    \E id \in 1..MaxSockets :
        /\ Len(received[id]) = 2
        /\ received[id][1].data = [e |-> "boom"]
        /\ Len(errors[id]) = 1
        /\ dispatched[id] = <<[e |-> "boom"], [e |-> "aggTrade"]>>
        /\ id \in openSocks

\* C13: a connection attempt goes to the listen-key endpoint if a listen key
\* has been set, else to the combined-stream endpoint with the streams now
\* subscribed joined by "/" if there are any, else to the bare endpoint; the
\* url is built anew from the current key and list at every attempt.
C13_ConnectionUrl ==
    [][\A t \in Tasks :
          AttemptBegins(t) =>
              LET streams == subscribed_streams'
                  u == url'[t]
              IN  IF listen_key' # "None"
                  THEN u = <<"/ws/", listen_key'>>
                  ELSE IF streams # <<>>
                  THEN /\ Len(u) = 2 * Len(streams)
                       /\ u[1] = "/stream?streams="
                       /\ \A i \in 1..Len(streams) : u[2 * i] = streams[i]
                       /\ \A i \in 1..(Len(streams) - 1) : u[2 * i + 1] = "/"
                  ELSE u = <<"/ws">>]_vars

\* A reconnect attempt goes to the listen-key endpoint although streams are
\* subscribed, and another attempt went to the combined-stream endpoint of
\* two streams.
C13_Witness ==
    /\ subscribed_streams # <<>>
    /\ \E t \in Tasks :
          pc[t] = "rconnecting" /\ url[t] = <<"/ws/", "lk1">>
    /\ \E t \in Tasks :
          Len(url[t]) = 4 /\ url[t][1] = "/stream?streams="

(***************************************************************************)
(* Claims about the REST interface                                         *)
(***************************************************************************)

\* C14: for a symbol with cached metadata and a ticker price p,
\* calculate_quantity_from_usdt(symbol, usdt) returns the largest multiple of
\* the quantity step that is at most usdt / p, and nothing when that
\* multiple is below the minimum quantity or its notional below the minimum
\* notional.  Amounts in cents and quantities in units of 0.001 make
\* usdt / p equal to (10 * usdt) / p units.
C14_LargestMultipleOfStep ==
    (/\ last.op = "calculate_quantity_from_usdt"
     /\ last.arg[2] # 0
     /\ last.symbol \in DOMAIN symbols_info)
    => LET info == symbols_info[last.symbol]
           usdt_amount == last.arg[1]
           price == last.arg[2]
           expected == ((10 * usdt_amount) \div (price * info.qty_step))
                           * info.qty_step
       IN  last.result =
               IF \/ expected < info.min_qty
                  \/ expected * price < info.min_notional * 1000
               THEN <<>>
               ELSE <<expected>>

\* The grid a rounding call is about: the LOT_SIZE step or the PRICE_FILTER
\* tick of its symbol on the exchange.
GridOf(op, symbol) ==
    IF op = "round_quantity_to_lot" THEN ExchangeLotStep[symbol]
    ELSE ExchangeTickSize[symbol]

\* The helper of a rounding call, applied to value again.
RoundAgain(op, symbol, value, have_info) ==
    IF op = "round_quantity_to_lot"
    THEN round_quantity_to_lot(symbol, value, have_info)
    ELSE round_price_to_tick(symbol, value, have_info)

\* v rounded half-up to the grid of step s: result r.
HalfUpOnGrid(v, s, r) ==
    /\ r % s = 0
    /\ v % s = 0 => r = v
    /\ 2 * (v % s) >= s => r = v - (v % s) + s
    /\ 2 * (v % s) < s => r = v - (v % s)

RoundingCall ==
    /\ last.op \in {"round_quantity_to_lot", "round_price_to_tick"}
    /\ last.symbol \in DOMAIN ExchangeLotStep

C16_ClosePosition ==
    [][last'.op = "close_position" =>
        LET rows == last'.arg.rows
            open == /\ last'.arg.pos_ok
                    /\ \E i \in DOMAIN rows : rows[i] # 0
        IN  IF open
            THEN LET a == rows[CHOOSE i \in DOMAIN rows : rows[i] # 0] IN
                 orders' = Append(orders,
                     [symbol |-> last'.symbol,
                      side |-> IF a > 0 THEN "SELL" ELSE "BUY",
                      type |-> "MARKET",
                      quantity |-> IF a > 0 THEN a ELSE -a,
                      reduceOnly |-> TRUE])
            ELSE orders' = orders /\ last'.result = <<>>]_vars

\* A short position of 0.003 in the second row has been closed by a BUY.
C16_Witness ==
    /\ last.op = "close_position"
    /\ last.arg.rows = <<0, -3>>
    /\ last.arg.pos_ok
    /\ last.result # <<>>
    /\ orders = <<[symbol |-> last.symbol, side |-> "BUY", type |-> "MARKET",
                   quantity |-> 3, reduceOnly |-> TRUE]>>

\* C17: the symbol-metadata cache changes only inside refresh_symbols_info,
\* which calculate_quantity_from_usdt invokes at most once per call and only
\* when the symbol lookup misses; get_symbol_info returns what the cache
\* holds, nothing for an unknown or never-refreshed symbol, and it, the
\* rounding helpers and the order and position operations leave the cache
\* unchanged.
C17_SingleWriter ==
    [][/\ symbols_info' # symbols_info =>
              /\ last'.op \in {"refresh_symbols_info",
                               "calculate_quantity_from_usdt"}
              /\ last'.refreshes = 1
       /\ last'.op = "calculate_quantity_from_usdt" =>
              /\ last'.refreshes \in {0, 1}
              /\ last'.refreshes = 1 => last'.symbol \notin DOMAIN symbols_info
       /\ last'.op = "get_symbol_info" =>
              last'.result = IF last'.symbol \in DOMAIN symbols_info
                             THEN <<symbols_info[last'.symbol]>>
                             ELSE <<>>
       /\ last'.op \in {"get_symbol_info", "round_quantity_to_lot",
                        "round_price_to_tick", "get_position",
                        "create_market_order", "close_position"} =>
              symbols_info' = symbols_info]_vars

\* calculate_quantity_from_usdt has refreshed the cache on a miss and
\* answered from it.
C17_Witness ==
    /\ last.op = "calculate_quantity_from_usdt"
    /\ last.refreshes = 1
    /\ last.symbol \in DOMAIN symbols_info
    /\ last.result # <<>>

(***************************************************************************)
(* Claims about the candle download                                        *)
(***************************************************************************)

\* What the progress file records.
Recorded == load_progress

\* C18: the candle download is resumable: a symbol recorded as completed in
\* the progress file is never downloaded again by a later run; the progress
\* file is rewritten after every processed symbol, whatever its outcome; a
\* symbol's failure does not end the run; and after a run that finishes
\* every symbol of the summary is recorded as completed or as failed.
C18_Resumable ==
    /\ \A n \in DOMAIN downloads :
           \/ completed_in[downloads[n][2]] = 0
           \/ downloads[n][1] <= completed_in[downloads[n][2]]
    /\ dl_pc \in {"download", "done"} =>
           /\ saves = processed
           /\ processed > 0 =>
                  progress_file = <<[completed |-> completed,
                                     failed |-> failed]>>
    /\ dl_pc = "save" => saves = processed - 1
    /\ dl_pc = "download" => processed = dl_i - 1
    /\ dl_pc = "done" =>
           /\ processed = Len(remaining_symbols)
           /\ \A s \in ToSet(info_symbols) :
                  s \in ToSet(Recorded.completed) \cup ToSet(Recorded.failed)

\* A second run has finished: BTCUSDT, completed by the first run, was not
\* downloaded again, and ETHUSDT failed in one of the runs before the end of
\* the list was reached.
C18_Witness ==
    /\ dl_pc = "done"
    /\ runs = 2
    /\ info_symbols = <<"BTCUSDT", "ETHUSDT">>
    /\ completed_in["BTCUSDT"] = 1
    /\ "ETHUSDT" \in ToSet(failed)
    /\ <<2, "ETHUSDT">> \in ToSet(downloads)
    /\ <<2, "BTCUSDT">> \notin ToSet(downloads)

(***************************************************************************)
(* Claims about the analysis database                                      *)
(***************************************************************************)

\* What a caller passed, read back from rows.
PositionsOf(rows) ==
    [n \in DOMAIN rows |->
        Position(rows[n].symbol, rows[n].side, rows[n].size)]

\* The ids of rows.
IdsOf(rows) == {rows[n].id : n \in DOMAIN rows}

\* C19: after update_lead_positions(trader, S) has returned, the positions
\* get_lead_positions(trader) returns are exactly S, no row the trader had
\* before survives, and the positions of every other trader are unchanged.
\* S is a position set: one position per symbol.
C19_UpdateReplaces ==
    [][(/\ db_last'.op = "update_lead_positions"
        /\ db_last'.result = "True") =>
           LET trader == db_last'.lead_trader_id
               after == get_lead_positions(lead_positions', trader)
           IN  /\ UniqueSymbols(db_last'.positions)
               /\ PositionsOf(after) = db_last'.positions
               /\ IdsOf(after)
                      \cap IdsOf(get_lead_positions(lead_positions, trader))
                      = {}
               /\ \A other \in LeadTraders \ {trader} :
                      get_lead_positions(lead_positions', other)
                          = get_lead_positions(lead_positions, other)]_vars

\* Trader 1 had the two positions S1, trader 2 one; a second update of
\* trader 1 with S2, one position, has left S2 alone beside trader 2's row.
C19_Witness ==
    /\ db_last.op = "update_lead_positions"
    /\ db_last.lead_trader_id = 1
    /\ db_last.result = "True"
    /\ next_id = 5
    /\ PositionsOf(get_lead_positions(lead_positions, 1))
           = <<Position("BTCUSDT", "BUY", 2)>>
    /\ IdsOf(get_lead_positions(lead_positions, 1)) = {4}
    /\ IdsOf(get_lead_positions(lead_positions, 2)) = {1}
\* The sizes of the summary in exact arithmetic, in hundredths: a mirrored
\* position is size x copy coefficient, times the reverse coefficient of a
\* reverse-trading trader.
ExactSize(trader, pos) ==
    pos.size * pos.copy_balance_coeff
        * (IF trader.reverse_trading THEN trader.reverse_coefficient ELSE 1)

\* BUY sizes less SELL sizes of a symbol over the first n positions read.
RECURSIVE ExactCalculatedNet(_, _, _)
ExactCalculatedNet(read, n, symbol) ==
    IF n = 0 THEN 0
    ELSE LET calculated_side == CalculatedSide(read[n].trader, read[n].pos)
             size == ExactSize(read[n].trader, read[n].pos)
         IN  ExactCalculatedNet(read, n - 1, symbol)
             + (IF read[n].pos.symbol # symbol THEN 0
                ELSE IF calculated_side = "BUY" THEN size
                ELSE IF calculated_side = "SELL" THEN -size
                ELSE 0)

RECURSIVE ExactActualNet(_, _, _)
ExactActualNet(user, n, symbol) ==
    IF n = 0 THEN 0
    ELSE ExactActualNet(user, n - 1, symbol)
         + (IF user[n].symbol # symbol THEN 0
            ELSE IF user[n].side = "BUY" THEN user[n].size
            ELSE IF user[n].side = "SELL" THEN -user[n].size
            ELSE 0)

ExactCalculated(symbol) ==
    LET read == PositionsRead(get_lead_traders(lead_traders), lead_positions)
    IN  ExactCalculatedNet(read, Len(read), symbol)

ExactActual(symbol) == ExactActualNet(user_positions, Len(user_positions), symbol)

SideOf(net) == IF net >= 0 THEN "BUY" ELSE "SELL"

\* The symbols of the rows: a size or the difference is not zero.
ExactSymbols ==
    LET emitted(symbol) == ExactCalculated(symbol) # 0 \/ ExactActual(symbol) # 0
    IN  SelectSeq(SummaryOrder, emitted)

\* A row states the nets of its symbol, their difference and its percentage.
RowAsStated(row) ==
    LET calculated == ExactCalculated(row.symbol)
        actual == ExactActual(row.symbol)
        difference == calculated - actual
    IN  /\ row.calculated_side = SideOf(calculated)
        /\ row.calculated_size = DoubleOf(Abs(calculated), 100)
        /\ row.actual_side = SideOf(actual)
        /\ row.actual_size = DoubleOf(Abs(actual), 100)
        /\ row.difference_side = SideOf(difference)
        /\ row.difference_abs = DoubleOf(Abs(difference), 100)
        /\ IF calculated # 0
           THEN row.difference_percent * Abs(calculated) = Abs(difference) * 10000
           ELSE row.difference_percent = (IF actual # 0 THEN 10000 ELSE 0)

\* C20: the trade summary has one row per symbol with a non-zero calculated
\* size, actual size or difference, sorted by symbol; the row reports the
\* calculated net (BUY less SELL mirrored sizes of the active traders), the
\* actual net of the cached positions, their difference with its side, and
\* the percentage |difference| / |calculated| x 100 (100 when only the
\* actual size is non-zero): calculated BUY 0.01 and actual BUY 0.03 give
\* difference SELL 0.02 and 200.0 percent.
C20_TradeSummary ==
    summary # <<>> =>
        /\ [n \in DOMAIN summary[1] |-> summary[1][n].symbol] = ExactSymbols
        /\ \A n \in DOMAIN summary[1] : RowAsStated(summary[1][n])

\* No element of the list is repeated.
NoRepeat(list) == Cardinality(ToSet(list)) = Len(list)

\* C25: in the progress record no symbol is in both the completed list and
\* the failed list, and no symbol is in either list more than once.
C25_ProgressLists ==
    /\ ToSet(Recorded.completed) \cap ToSet(Recorded.failed) = {}
    /\ NoRepeat(Recorded.completed)
    /\ NoRepeat(Recorded.failed)

\* C30: a symbol the progress file records as completed, or that main() has
\* appended to completed, has its candle file written to its end: the file
\* is never missing or cut short, wherever the stage is interrupted.
C30_CsvBeforeCompleted ==
    \A s \in ToSet(Recorded.completed) \cup ToSet(completed) :
        s \in csv_files /\ s \notin csv_partial

\* The stage was interrupted while the file of a later symbol was being
\* written, after the progress file recorded an earlier one.
C30_Witness ==
    /\ dl_pc = "idle"
    /\ csv_partial # {}
    /\ Recorded.completed # <<>>

(***************************************************************************)
(* Further claims about the mirror operation                               *)
(***************************************************************************)

\* C26: the mirror operation never submits a market order of quantity zero:
\* when quantity x coefficient rounds to zero on the lot size, no order is
\* placed on the main account.
C26_NoZeroOrder ==
    \A n \in DOMAIN mainOrders : mainOrders[n].quantity > 0

\* C28: mirror orders reach the main account in the order in which their
\* fills were dispatched: a fill is scheduled behind those already waiting,
\* the operation that runs is the one scheduled first, it submits its order
\* in the same step, and nothing else submits an order.
C28_MirrorOrderFifo ==
    [][/\ copyTasks' # copyTasks =>
           \/ /\ Len(copyTasks') = Len(copyTasks) + 1
              /\ SubSeq(copyTasks', 1, Len(copyTasks)) = copyTasks
              /\ mainOrders' = mainOrders
           \/ /\ copyTasks # <<>>
              /\ copyTasks' = Tail(copyTasks)
              /\ Len(mainOrders') = Len(mainOrders) + 1
              /\ SubSeq(mainOrders', 1, Len(mainOrders)) = mainOrders
              /\ Len(copyLog') = Len(mainOrders')
              /\ LET entry == copyLog'[Len(copyLog')]
                     first == Head(copyTasks)
                 IN  /\ entry.source_name = first.source_name
                     /\ entry.symbol = first.execution.symbol
                     /\ entry.original_qty = first.execution.quantity
                     /\ mainOrders'[Len(mainOrders')].symbol = entry.symbol
       /\ mainOrders' # mainOrders =>
              copyTasks # <<>> /\ copyTasks' = Tail(copyTasks)]_vars

\* Fills of two sources were both mirrored, in the order of their dispatch.
C28_Witness ==
    /\ Len(mainOrders) = 2
    /\ copyTasks = <<>>
    /\ copyLog[1].source_name # copyLog[2].source_name
    /\ copyLog[1].original_qty # copyLog[2].original_qty

(***************************************************************************)
(* Further claims about the WebSocket client                               *)
(***************************************************************************)

\* C27: whenever a connection is established, every stream of the
\* subscription list at that moment is requested on it, in the url or by a
\* SUBSCRIBE frame, also in user-data mode.
C27_StreamsRequested ==
    [][\A t \in Tasks :
          (sock'[t] # sock[t] /\ sock'[t] # 0) =>
              ToSet(subscribed_streams) \subseteq
                  ToSet(url[t])
                      \cup ToSet(SubscribeOnConnect(url[t], subscribed_streams))]_vars

\* The ids of the rows of lead_traders that were removed.
RemovedIds(traders) ==
    {traders[n].id : n \in {k \in DOMAIN traders : ~traders[k].is_active}}

\* The database as it would be had the removed traders and their positions
\* never been stored.
NeverStored(traders) ==
    LET stored(trader) == trader.id \notin RemovedIds(traders)
    IN  SelectSeq(traders, stored)

NeverStoredPositions(traders, positions) ==
    LET stored(row) == row.lead_trader_id \notin RemovedIds(traders)
    IN  SelectSeq(positions, stored)

OnceRemoved ==
    \A n \in DOMAIN lead_traders :
        ~lead_traders[n].is_active =>
            /\ n \in DOMAIN lead_traders'
            /\ lead_traders'[n].id = lead_traders[n].id
            /\ lead_traders'[n].portfolio_id = lead_traders[n].portfolio_id
            /\ ~lead_traders'[n].is_active

RemoveKeepsRows ==
    /\ db_last'.op = "remove_lead_trader"
    /\ db_last'.updates # db_last.updates
    => /\ db_last'.lead_trader_id \in RemovedIds(lead_traders')
             \/ db_last'.result = "False"
       /\ Len(lead_traders') = Len(lead_traders)
       /\ lead_positions' = lead_positions

AddAgainRejected ==
    /\ db_last'.op = "add_lead_trader"
    /\ db_last'.updates # db_last.updates
    /\ \E n \in DOMAIN lead_traders :
          /\ ~lead_traders[n].is_active
          /\ lead_traders[n].portfolio_id = db_last'.portfolio_id
    => /\ lead_traders' = lead_traders
       /\ db_last'.result = "raised"

NotInOverview ==
    db_last'.op = "get_lead_traders_overview" =>
        \A n \in DOMAIN db_last'.result :
            db_last'.result[n].id \notin RemovedIds(lead_traders')

NotInSummary ==
    summary' # summary =>
        summary' = <<get_trade_summary(
                         NeverStored(lead_traders'),
                         NeverStoredPositions(lead_traders', lead_positions'),
                         user_positions')>>

\* C29: once remove_lead_trader has run for a trader, every later step keeps
\* its row, inactive, and its lead_positions rows; the trader is in no
\* overview and the trade summary is the one of a database that never held
\* it; add_lead_trader for its portfolio raises and changes nothing.
C29_SoftDelete ==
    [][/\ OnceRemoved
       /\ RemoveKeepsRows
       /\ AddAgainRejected
       /\ NotInOverview
       /\ NotInSummary]_vars

\* A removed trader whose positions are stored, after the summary and then
\* the overview were asked for.
C29_Witness ==
    /\ \E n \in DOMAIN lead_traders :
          /\ ~lead_traders[n].is_active
          /\ get_lead_positions(lead_positions, lead_traders[n].id) # <<>>
    /\ summary # <<>>
    /\ db_last.op = "get_lead_traders_overview"
    /\ Len(db_last.result) < Len(lead_traders)

\* C24: when the exchange request of a user-positions call raises, the
\* cached rows of the user are as before the call and the response is not
\* success:true.
C24_FailedFetchKept ==
    [][db_last'.op = "get_user_positions" /\ db_last'.raised
          => /\ user_positions' = user_positions
             /\ ~db_last'.result.success]_vars

\* A bound at least as tight as another: None is the loosest, a minimum is
\* tightened by raising it and a maximum by lowering it.
TighterMin(tight, loose) ==
    loose = None \/ (tight # None /\ tight[1] >= loose[1])

TighterMax(tight, loose) ==
    loose = None \/ (tight # None /\ tight[1] <= loose[1])

TighterBounds(tight, loose) ==
    /\ TighterMin(tight.MIN_VOLUME_RATIO, loose.MIN_VOLUME_RATIO)
    /\ TighterMax(tight.MAX_VOLUME_RATIO, loose.MAX_VOLUME_RATIO)
    /\ TighterMin(tight.MIN_CANDLE_RATIO, loose.MIN_CANDLE_RATIO)
    /\ TighterMax(tight.MAX_CANDLE_RATIO, loose.MAX_CANDLE_RATIO)
    /\ TighterMin(tight.MIN_VOLATILITY, loose.MIN_VOLATILITY)
    /\ TighterMax(tight.MAX_VOLATILITY, loose.MAX_VOLATILITY)

NoBounds ==
    [MIN_VOLUME_RATIO |-> None, MAX_VOLUME_RATIO |-> None,
     MIN_CANDLE_RATIO |-> None, MAX_CANDLE_RATIO |-> None,
     MIN_VOLATILITY |-> None, MAX_VOLATILITY |-> None]

InitialMonotone ==
    filter_last.op = "apply_initial_filters" =>
        /\ \A higher \in Bounds :
              TighterMin(higher, filter_last.bounds.MIN_USDT_VALUE_INITIAL) =>
                  LET tight == apply_initial_filters(
                                   higher,
                                   filter_last.bounds.MIN_PRICE_INITIAL)
                  IN  /\ tight.raised = filter_last.result.raised
                      /\ tight.rows \subseteq filter_last.result.rows
        /\ /\ filter_last.bounds.MIN_USDT_VALUE_INITIAL = None
           /\ filter_last.bounds.MIN_PRICE_INITIAL = None
           /\ ~filter_last.result.raised
           => filter_last.result.rows = DOMAIN df

AdvancedMonotone ==
    filter_last.op = "apply_advanced_filters" =>
        /\ \A tight \in AdvancedBounds :
              TighterBounds(tight, filter_last.bounds) =>
                  LET fewer == apply_advanced_filters(tight)
                  IN  /\ fewer.raised = filter_last.result.raised
                      /\ fewer.rows \subseteq filter_last.result.rows
        /\ \A n \in filter_last.result.rows : df[n].has_data
        /\ filter_last.bounds = NoBounds /\ ~filter_last.result.raised
           => filter_last.result.rows = {n \in DOMAIN df : df[n].has_data}

\* C21: the rows apply_initial_filters returns under a higher
\* MIN_USDT_VALUE_INITIAL are among those it returns under a lower one; the
\* rows apply_advanced_filters returns under tighter bounds are among those
\* it returns under looser ones; no row without market data is returned by
\* the advanced filters; with every bound None the initial filters return
\* every row and the advanced filters every row with market data.  On a
\* frame without rows both functions raise, whatever the bounds.
C21_FiltersMonotone == InitialMonotone /\ AdvancedMonotone

\* Two rows, one without market data; the minimum volume ratio keeps one row
\* and a higher minimum would keep none.
C21_Witness ==
    /\ filter_last.op = "apply_advanced_filters"
    /\ Len(df) = 2
    /\ \E n \in DOMAIN df : ~df[n].has_data
    /\ filter_last.bounds.MIN_VOLUME_RATIO = <<2>>
    /\ Cardinality(filter_last.result.rows) = 1
    /\ apply_advanced_filters(
           [filter_last.bounds EXCEPT !.MIN_VOLUME_RATIO = <<3>>]).rows = {}

\* A file named <base>_<YYYY-MM-DD>.log
Dated(file, base_name) ==
    /\ file.suffix = "log"
    /\ Len(file.parts) = 2
    /\ file.parts[1] = Text(base_name)
    /\ file.parts[2].kind = "date"

\* C22: a rollover closes the current file and opens app_<new date>.log, and
\* of the files that were in the directory it deletes exactly those named
\* app_<YYYY-MM-DD>.log whose days_old is greater than keep_days; every
\* other file is still there.
C22_RolloverCleanup ==
    [][log_last'.op = "doRollover" =>
          /\ stream' = "open"
          /\ baseFilename' = <<LogName("app", today')>>
          /\ LogName("app", today') \in log_files'
          /\ \A file \in log_files :
                file \notin log_files' <=>
                    /\ Dated(file, "app")
                    /\ days_old(file, today') > backupCount']_vars

RECURSIVE Concatenated(_)
Concatenated(lists) ==
    IF lists = <<>> THEN <<>> ELSE Head(lists) \o Concatenated(Tail(lists))

\* The intervals of the table of lines 181-197.
KnownIntervals ==
    {"1m", "3m", "5m", "15m", "30m", "1h", "2h", "4h", "6h", "8h", "12h",
     "1d", "3d", "1w", "1M"}

\* An iteration of the loop stops or moves the window start forward to the
\* time of the last candle of its page plus one interval.
StopsOrAdvances ==
    pages' # pages =>
        LET klines == pages'[Len(pages')]
        IN  IF kl_pc' = "convert"
            THEN \/ klines = <<>>
                 \/ Len(klines) < limit
                 \/ current_start' >= kl_args.end_time
            ELSE /\ kl_pc' = "while"
                 /\ current_start' = klines[Len(klines)][1]
                                         + interval_ms(kl_args.interval)
                 /\ current_start' > current_start

UnknownInterval ==
    /\ pages' # pages
    /\ pages'[Len(pages')] # <<>>
    /\ kl_args.interval \notin KnownIntervals
    => current_start' = pages'[Len(pages')][Len(pages'[Len(pages')])][1]
                            + 60000

====
